---- MODULE Spec2Model ----
(***************************************************************************)
(* Model of tg-courier's per-chat job queue (src/tgcourier/queue.py):      *)
(* ChatQueue state, the QueueManager operations called by the command      *)
(* handlers, and the worker task with the job pipeline it drives.          *)
(*                                                                         *)
(* asyncio runs one task at a time and switches tasks only at an await     *)
(* that really suspends.  Every action below is the code between two       *)
(* suspension points.  "async with cq.lock" never suspends: no holder of   *)
(* a ChatQueue lock awaits while holding it, so the lock is always free    *)
(* when it is requested, and each locked block is part of one step.        *)
(***************************************************************************)
EXTENDS Integers, Sequences, FiniteSets, TLC

\* the number of jobs the environment enqueues per chat
MaxJobs == 2

Sessions == {1}

Kinds == {"text", "audio"}

\* ChatQueue.current = None, and a task that holds no job
NoJob == [job_id |-> 0, kind |-> "none"]

\* Job(job_id=..., kind=...): the payload fields play no part in the queue
Job(id, k) == [job_id |-> id, kind |-> k]

\* outcomes of one awaited transport call: delivered, or TelegramError raised
SendOutcomes == {"ok", "fail"}

\* outcomes of Agent.ask other than cancellation
AgentOutcomes == {"plain", "detach_ok", "detach_bad", "timeout", "tgerror", "error"}

VARIABLES
    next_id,      \* ChatQueue.next_id
    queue,        \* ChatQueue.queue
    current,      \* ChatQueue.current
    worker_task,  \* ChatQueue.worker_task: index into tasks[s], 0 for None
    tasks,        \* the asyncio tasks created by create_task(self._worker(chat_id))
    history,      \* StateStore messages of the chat
    bg_next_id,   \* BgJobManager._next_id
    cc,           \* the caller of cancel_and_clear and where it is
    assigned,     \* the job ids enqueue has returned so far (observation)
    enq_idle,     \* the latest enqueue found no worker running and an empty queue (observation)
    begun,        \* job ids in the order the worker made them current (observation)
    out,          \* what the latest step returned to its caller, or the job it ended (observation)
    reply_text,   \* reply.text of the agent reply that lines 320-356 handle, as its lines
    detach_pc,    \* where the handling of that reply is
    bg_started,   \* the calls of BgJobManager.start made for that reply
    appended,     \* the assistant turns appended for that reply
    sent,         \* the texts send_chat delivered for that reply
    bg_job,       \* the BgJob of BgJobManager._jobs[1], once start has made it
    run_pc,       \* where the task of BgJobManager._run is
    status_task,  \* the task of BgJobManager._status_loop: where it is, cancel requested
    process,      \* the child process: its state and the signals sent to it
    timers,       \* the hard_kill tasks that are still asleep
    bg_chat,      \* what the background job has put in the chat (observation)
    cancel_calls, \* how many cancel calls were made, how many returned True (observation)
    state_file,   \* the file at StateStore._path: whether it exists, its text, who wrote it
    tmp_file,     \* the file at the path with ".tmp" added
    backups,      \* the files at the path with ".corrupt.<seconds>" added, by seconds
    clock,        \* time.time()
    claim_pc,     \* where the handler task of each user's /claim command is
    state_lock,   \* the owner of the state lock of telegram_bot.py line 99, 0 when free
    oauth_pc,     \* where each session's on_oauth_url callback is, and its url
    oauth_lock    \* the owner of QueueManager._oauth_lock, 0 when free

\* the state of the reply handling of lines 320-356, modelled on its own
dvars == <<reply_text, detach_pc, bg_started, appended, sent>>

\* the state of BgJobManager for one background job, modelled on its own
bvars == <<bg_job, run_pc, status_task, process, timers, bg_chat, cancel_calls>>

\* the variables the queue operations and the worker do not touch
\* the files of StateStore and the time
svars == <<state_file, tmp_file, backups, clock>>

\* the command handlers that are modelled on their own
\* the on_oauth_url callbacks and their lock
ovars == <<oauth_pc, oauth_lock>>

hvars == <<claim_pc, state_lock, ovars>>

others == <<dvars, bvars, svars, hvars>>

vars == <<next_id, queue, current, worker_task, tasks, history, bg_next_id,
          cc, assigned, enq_idle, begun, out, others>>

\* a task that create_task has made and that has not run yet
NewTask ==
    [pc |-> "start", job |-> NoJob, must_cancel |-> FALSE, exc |-> "none",
     reply |-> "none", hb_message_id |-> FALSE, hb_left |-> FALSE, result |-> "none",
     fx |-> {}, cancel_at |-> "none", after |-> {}]

\* asyncio.Task.done()
Done(t) == t.pc = "done"

\* the finished task: the coroutine returned, was cancelled, or raised
Finished(res) == [NewTask EXCEPT !.pc = "done", !.result = res]

\* the latest step returned nothing and ended no job
NoOut == [op |-> "none"]

CcIdle == [pc |-> "idle", task |-> 0, waited |-> FALSE, enq |-> FALSE]

\* no reply is being handled
DetachIdle ==
    /\ reply_text = <<>>
    /\ detach_pc = "idle"
    /\ bg_started = <<>>
    /\ appended = <<>>
    /\ sent = <<>>

\* BgJobManager.__init__: no job yet
BgIdle ==
    /\ bg_job = [exists |-> FALSE, proc |-> FALSE, ended |-> FALSE, status_message_id |-> FALSE]
    /\ run_pc = "none"
    /\ status_task = [pc |-> "none", must_cancel |-> FALSE]
    /\ process = [state |-> "none", term |-> FALSE, kill |-> FALSE]
    /\ timers = 0
    /\ bg_chat = [display |-> "none", notices |-> 0, events |-> <<>>, late_edit |-> FALSE,
                  delete_failed |-> FALSE]
    /\ cancel_calls = [made |-> 0, true |-> 0]

\* a file that does not exist
Absent == [exists |-> FALSE, text |-> <<>>, saved |-> FALSE]

\* StateStore.__init__ on a new directory: no file yet
StoreIdle ==
    /\ state_file = Absent
    /\ tmp_file = Absent
    /\ backups = {}
    /\ clock = 0

\* QueueManager.__init__ and _get (lines 71-76): a session's ChatQueue is
\* created empty the first time the session is used; S is the sessions used
QueueInitOn(S) ==
    /\ next_id = [s \in S |-> 1]
    /\ queue = [s \in S |-> <<>>]
    /\ current = [s \in S |-> NoJob]
    /\ worker_task = [s \in S |-> 0]
    /\ tasks = [s \in S |-> <<>>]
    /\ history = [s \in S |-> <<>>]
    /\ bg_next_id = 1
    /\ cc = [s \in S |-> CcIdle]
    /\ assigned = [s \in S |-> {}]
    /\ enq_idle = [s \in S |-> FALSE]
    /\ begun = [s \in S |-> <<>>]
    /\ out = NoOut

QueueInit == QueueInitOn(Sessions)

\* the users who send /claim
ClaimUsers == {5, 6}

\* the sessions whose agent calls report authorization URLs
OauthChats == {7, 8}

\* no callback has been called
OauthIdle == [pc |-> "idle", url |-> "none"]

\* no /claim is being handled and the state lock is free
HandlersIdle ==
    /\ claim_pc = [u \in ClaimUsers |-> "idle"]
    /\ state_lock = 0
    /\ oauth_pc = [c \in OauthChats |-> OauthIdle]
    /\ oauth_lock = 0

Init == QueueInit /\ DetachIdle /\ BgIdle /\ StoreIdle /\ HandlersIdle

\* ---------------------------------------------------------------------
\* QueueManager.enqueue_text / enqueue_audio
\* ---------------------------------------------------------------------

\* a spawn test that looks at current instead of at the worker task
NeedsWorker_no_current(s) == current[s] = NoJob

\* "cq.worker_task is None or cq.worker_task.done()"
NeedsWorker(s) == worker_task[s] = 0 \/ Done(tasks[s][worker_task[s]])

\* some task of the session that has not finished holds job j
HeldByLiveTask(s, j) ==
    \E i \in DOMAIN tasks[s] : ~Done(tasks[s][i]) /\ tasks[s][i].job.job_id = j

InQueue(s, j) == \E k \in DOMAIN queue[s] : queue[s][k].job_id = j

\* what an enqueue call returned and the state it was called in
EnqRecord(s, id, pos, flag) ==
    [op |-> "enqueue", s |-> s, job_id |-> id, pos |-> pos, flag |-> flag,
     idle |-> NeedsWorker(s) /\ queue[s] = <<>>,
     stale |-> current[s] # NoJob,
     prev_idle |-> enq_idle[s],
     prev_pending |-> InQueue(s, id - 1),
     prev_running |-> HeldByLiveTask(s, id - 1)]

\* enqueue without "cq.next_id += 1"
enqueue_no_increment(s, kind) ==
    /\ next_id[s] <= MaxJobs
    /\ LET job == Job(next_id[s], kind)
           running == current[s] # NoJob
           pos == Len(queue[s]) + 1
           started == NeedsWorker(s)
       IN /\ next_id' = next_id
          /\ queue' = [queue EXCEPT ![s] = Append(@, job)]
          /\ IF started
                THEN /\ tasks' = [tasks EXCEPT ![s] = Append(@, NewTask)]
                     /\ worker_task' = [worker_task EXCEPT ![s] = Len(tasks[s]) + 1]
                ELSE UNCHANGED <<tasks, worker_task>>
          /\ out' = EnqRecord(s, job.job_id, pos, started /\ ~running)
          /\ enq_idle' = [enq_idle EXCEPT ![s] = NeedsWorker(s) /\ queue[s] = <<>>]
          /\ assigned' = [assigned EXCEPT ![s] = @ \cup {job.job_id}]
          /\ cc' = [cc EXCEPT ![s].enq = @ \/ cc[s].pc # "idle"]
    /\ UNCHANGED <<current, history, bg_next_id, begun, others>>

\* enqueue that takes the position before the append
enqueue_pos_before_append(s, kind) ==
    /\ next_id[s] <= MaxJobs
    /\ LET job == Job(next_id[s], kind)
           running == current[s] # NoJob
           pos == Len(queue[s])
           started == NeedsWorker(s)
       IN /\ next_id' = [next_id EXCEPT ![s] = @ + 1]
          /\ queue' = [queue EXCEPT ![s] = Append(@, job)]
          /\ IF started
                THEN /\ tasks' = [tasks EXCEPT ![s] = Append(@, NewTask)]
                     /\ worker_task' = [worker_task EXCEPT ![s] = Len(tasks[s]) + 1]
                ELSE UNCHANGED <<tasks, worker_task>>
          /\ out' = EnqRecord(s, job.job_id, pos, started /\ ~running)
          /\ enq_idle' = [enq_idle EXCEPT ![s] = NeedsWorker(s) /\ queue[s] = <<>>]
          /\ assigned' = [assigned EXCEPT ![s] = @ \cup {job.job_id}]
          /\ cc' = [cc EXCEPT ![s].enq = @ \/ cc[s].pc # "idle"]
    /\ UNCHANGED <<current, history, bg_next_id, begun, others>>

\* lines 78-95 and 105-124: the two bodies differ only in the Job they build
enqueue(s, kind) ==
    /\ next_id[s] <= MaxJobs
    /\ LET job == Job(next_id[s], kind)
           running == current[s] # NoJob
           pos == Len(queue[s]) + 1
           started == NeedsWorker(s)
       IN /\ next_id' = [next_id EXCEPT ![s] = @ + 1]
          /\ queue' = [queue EXCEPT ![s] = Append(@, job)]
          /\ IF started
                THEN /\ tasks' = [tasks EXCEPT ![s] = Append(@, NewTask)]
                     /\ worker_task' = [worker_task EXCEPT ![s] = Len(tasks[s]) + 1]
                ELSE UNCHANGED <<tasks, worker_task>>
          /\ out' = EnqRecord(s, job.job_id, pos, started /\ ~running)
          /\ enq_idle' = [enq_idle EXCEPT ![s] = NeedsWorker(s) /\ queue[s] = <<>>]
          /\ assigned' = [assigned EXCEPT ![s] = @ \cup {job.job_id}]
          /\ cc' = [cc EXCEPT ![s].enq = @ \/ cc[s].pc # "idle"]
    /\ UNCHANGED <<current, history, bg_next_id, begun, others>>

enqueue_text(s) == enqueue(s, "text")

enqueue_audio(s) == enqueue(s, "audio")

\* ---------------------------------------------------------------------
\* QueueManager.drop_pending
\* ---------------------------------------------------------------------
\* drop_pending that clears current as well
drop_pending_clears_current(s) ==
    /\ queue' = [queue EXCEPT ![s] = <<>>]
    /\ current' = [current EXCEPT ![s] = NoJob]
    /\ out' = [op |-> "drop_pending", s |-> s, n |-> Len(queue[s])]
    /\ UNCHANGED <<next_id, worker_task, tasks, history, bg_next_id,
                   cc, assigned, enq_idle, begun, others>>

\* lines 126-129: the current job and a copy of the pending list
snapshot(s) ==
    /\ out' = [op |-> "snapshot", s |-> s, current |-> current[s], pending |-> queue[s]]
    /\ UNCHANGED <<next_id, queue, current, worker_task, tasks, history, bg_next_id,
                   cc, assigned, enq_idle, begun, others>>

\* a drop_pending that has to wait for the session lock while a job runs
drop_pending_after_job(s) ==
    /\ current[s] = NoJob
    /\ queue' = [queue EXCEPT ![s] = <<>>]
    /\ out' = [op |-> "drop_pending", s |-> s, n |-> Len(queue[s])]
    /\ UNCHANGED <<next_id, current, worker_task, tasks, history, bg_next_id,
                   cc, assigned, enq_idle, begun, others>>

drop_pending(s) ==
    /\ queue' = [queue EXCEPT ![s] = <<>>]
    /\ out' = [op |-> "drop_pending", s |-> s, n |-> Len(queue[s])]
    /\ UNCHANGED <<next_id, current, worker_task, tasks, history, bg_next_id,
                   cc, assigned, enq_idle, begun, others>>

\* ---------------------------------------------------------------------
\* QueueManager.cancel_and_clear
\* ---------------------------------------------------------------------

\* asyncio.Task.cancel(): the CancelledError is thrown into the task at the
\* await it is suspended in, when the task next runs
Cancel(t) ==
    [t EXCEPT !.must_cancel = TRUE,
              !.cancel_at = IF t.job # NoJob /\ @ = "none" THEN t.pc ELSE @]

\* lines 139-145: clear the queue under the lock, then cancel the worker
cancel_and_clear(s) ==
    /\ cc[s].pc = "idle"
    /\ queue' = [queue EXCEPT ![s] = <<>>]
    /\ LET task == worker_task[s]
       IN IF task # 0 /\ ~Done(tasks[s][task])
             THEN /\ tasks' = [tasks EXCEPT ![s][task] = Cancel(@)]
                  /\ cc' = [cc EXCEPT ![s] = [pc |-> "await", task |-> task, waited |-> TRUE, enq |-> FALSE]]
             ELSE /\ cc' = [cc EXCEPT ![s] = [pc |-> "returned", task |-> task, waited |-> FALSE, enq |-> FALSE]]
                  /\ UNCHANGED tasks
    /\ out' = NoOut
    /\ UNCHANGED <<next_id, current, worker_task, history, bg_next_id,
                   assigned, enq_idle, begun, others>>

\* lines 146-147: "with contextlib.suppress(Exception): await task" resumes
\* when the task is done; CancelledError is not an Exception
cancel_await(s) ==
    /\ cc[s].pc = "await"
    /\ Done(tasks[s][cc[s].task])
    /\ cc' = [cc EXCEPT ![s].pc =
                 IF tasks[s][cc[s].task].result = "cancelled" THEN "raised" ELSE "returned"]
    /\ out' = NoOut
    /\ UNCHANGED <<next_id, queue, current, worker_task, tasks, history, bg_next_id,
                   assigned, enq_idle, begun, others>>

\* the caller of cancel_and_clear goes on; a later command may call it again
cancel_finish(s) ==
    /\ cc[s].pc \in {"returned", "raised"}
    /\ cc' = [cc EXCEPT ![s] = CcIdle]
    /\ out' = NoOut
    /\ UNCHANGED <<next_id, queue, current, worker_task, tasks, history, bg_next_id,
                   assigned, enq_idle, begun, others>>

\* ---------------------------------------------------------------------
\* QueueManager._worker and QueueManager._run_job
\* ---------------------------------------------------------------------

SetTask(s, i, t) == [tasks EXCEPT ![s][i] = t]

\* records an effect of the job in flight; "after" keeps the effects that
\* happen once cancel_and_clear has cancelled the worker during this job
Did(t, e) ==
    [t EXCEPT !.fx = @ \cup {e},
              !.after = IF t.cancel_at # "none" THEN @ \cup {e} ELSE @]

\* the task moves to another await; no ChatQueue or store field changes
Goto(s, i, t) ==
    /\ tasks' = SetTask(s, i, t)
    /\ out' = NoOut
    /\ UNCHANGED <<queue, current, begun, history, bg_next_id>>

\* the job of task t has ended: how, and what it did
Summary(s, t, outcome) ==
    [op |-> "job_end", s |-> s, job_id |-> t.job.job_id, outcome |-> outcome,
     cancel_at |-> t.cancel_at, fx |-> t.fx, after |-> t.after,
     displays |-> t.hb_message_id \/ t.hb_left]

\* the head of the loop with "cq.queue.pop()" for "cq.queue.pop(0)"
LoopTop_pop_last(s, i) ==
    IF queue[s] = <<>>
       THEN /\ current' = [current EXCEPT ![s] = NoJob]
            /\ tasks' = SetTask(s, i, Finished("returned"))
            /\ UNCHANGED <<queue, begun>>
       ELSE LET job == queue[s][Len(queue[s])] IN
            /\ queue' = [queue EXCEPT ![s] = SubSeq(@, 1, Len(@) - 1)]
            /\ current' = [current EXCEPT ![s] = job]
            /\ tasks' = SetTask(s, i, [NewTask EXCEPT !.pc = "working", !.job = job])
            /\ begun' = [begun EXCEPT ![s] = Append(@, job.job_id)]

\* lines 152-157 when run by task i: the locked head of the worker loop
LoopTop(s, i) ==
    IF queue[s] = <<>>
       THEN /\ current' = [current EXCEPT ![s] = NoJob]
            /\ tasks' = SetTask(s, i, Finished("returned"))
            /\ UNCHANGED <<queue, begun>>
       ELSE /\ queue' = [queue EXCEPT ![s] = Tail(@)]
            /\ current' = [current EXCEPT ![s] = Head(queue[s])]
            /\ tasks' = SetTask(s, i, [NewTask EXCEPT !.pc = "working", !.job = Head(queue[s])])
            /\ begun' = [begun EXCEPT ![s] = Append(@, Head(queue[s]).job_id)]

\* _run_job returned, or the except-Exception handler finished: the finally
\* of lines 180-182 clears current and the loop goes round (lines 151-157)
EndJobLoop(s, i, t, outcome) ==
    /\ out' = Summary(s, t, outcome)
    /\ LoopTop(s, i)
    /\ UNCHANGED <<history, bg_next_id>>

\* an exception leaves the try statement: the finally of lines 180-182
\* clears current and the task ends as res ("cancelled" or "failed")
EndJobRaise(s, i, t, outcome, res) ==
    /\ out' = Summary(s, t, outcome)
    /\ current' = [current EXCEPT ![s] = NoJob]
    /\ tasks' = SetTask(s, i, Finished(res))
    /\ UNCHANGED <<queue, begun, history, bg_next_id>>

\* an exception raised inside _run_job reaches the try of lines 164-179:
\* CancelledError goes to "Canceled.", any Exception to the error report
RaiseInJob(s, i, t, what) ==
    Goto(s, i, [t EXCEPT !.pc = IF what = "cancel" THEN "canceled_msg" ELSE "report_msg",
                         !.must_cancel = FALSE])

\* config.py line 128: the default of MAX_TURNS
settings_max_turns == 20

\* line 253, store.get_messages(chat_id, settings.max_turns): the last
\* max_turns * 2 messages of the history h
PriorView(h) ==
    LET keep == settings_max_turns * 2
    IN  IF keep # 0 /\ Len(h) > keep THEN SubSeq(h, Len(h) - keep + 1, Len(h)) ELSE h

\* lines 252-259: the prompt is rendered from the view read before the
\* append, followed by the user's text
PromptRecord(s, t, prior) ==
    [op |-> "prompt", s |-> s, job_id |-> t.job.job_id, prior |-> prior,
     turns |-> Append(prior, [role |-> "user", job |-> t.job.job_id, text |-> "user"])]

\* the locked block with its two store calls in the other order
EnterAgent_append_first(s, i, t) ==
    /\ history' = [history EXCEPT ![s] =
                      Append(@, [role |-> "user", job |-> t.job.job_id, text |-> "user"])]
    /\ tasks' = SetTask(s, i, Did([t EXCEPT !.pc = "agent"], "user_turn"))
    /\ out' = PromptRecord(s, t, PriorView(history'[s]))
    /\ UNCHANGED <<queue, current, begun, bg_next_id>>

\* lines 247-299: build the prompt, append the user turn under the state
\* lock, start the heartbeat task and await the agent
EnterAgent(s, i, t) ==
    /\ history' = [history EXCEPT ![s] =
                      Append(@, [role |-> "user", job |-> t.job.job_id, text |-> "user"])]
    /\ tasks' = SetTask(s, i, Did([t EXCEPT !.pc = "agent"], "user_turn"))
    /\ out' = PromptRecord(s, t, PriorView(history[s]))
    /\ UNCHANGED <<queue, current, begun, bg_next_id>>

\* a task's first step
\* a worker loop that shared one lock with every other session's job
worker_start_global(s) ==
    \E i \in DOMAIN tasks[s] :
        LET t == tasks[s][i] IN
        /\ t.pc = "start"
        /\ \A r \in DOMAIN current : r # s => current[r] = NoJob
        /\ IF t.must_cancel
              THEN /\ tasks' = SetTask(s, i, Finished("cancelled"))
                   /\ UNCHANGED <<queue, current, begun>>
              ELSE LoopTop(s, i)
        /\ out' = NoOut
        /\ UNCHANGED <<next_id, worker_task, history, bg_next_id, cc, assigned, enq_idle, others>>

worker_start(s) ==
    \E i \in DOMAIN tasks[s] :
        LET t == tasks[s][i] IN
        /\ t.pc = "start"
        /\ IF t.must_cancel
              THEN /\ tasks' = SetTask(s, i, Finished("cancelled"))
                   /\ UNCHANGED <<queue, current, begun>>
              ELSE LoopTop(s, i)
        /\ out' = NoOut
        /\ UNCHANGED <<next_id, worker_task, history, bg_next_id, cc, assigned, enq_idle, others>>

\* lines 159-163: the "Working on #n" notice, sent outside the try statement;
\* then _run_job up to its first await (lines 199-215 or 199-299)
worker_working(s) ==
    \E i \in DOMAIN tasks[s] : \E o \in SendOutcomes :
        LET t == tasks[s][i] IN
        /\ t.pc = "working"
        /\ IF t.must_cancel \/ o = "fail"
              THEN /\ tasks' = SetTask(s, i, Finished(IF t.must_cancel THEN "cancelled" ELSE "failed"))
                   /\ out' = Summary(s, t, IF t.must_cancel THEN "aborted" ELSE "crashed")
                   /\ UNCHANGED <<queue, current, begun, history, bg_next_id>>
              ELSE IF t.job.kind = "audio"
                      THEN Goto(s, i, [t EXCEPT !.pc = "dl_notice"])
                      ELSE EnterAgent(s, i, t)
        /\ UNCHANGED <<next_id, worker_task, cc, assigned, enq_idle, others>>

\* the awaits of the audio prelude that have no handler of their own:
\* lines 211-215 (notice), 217-222 (download), 224-228 (notice), 245 (preview)
AudioNext(pc) ==
    CASE pc = "dl_notice" -> "download"
      [] pc = "download" -> "tr_notice"
      [] pc = "tr_notice" -> "transcribe"
      [] OTHER -> "agent"

run_job_audio(s) ==
    \E i \in DOMAIN tasks[s] : \E o \in SendOutcomes :
        LET t == tasks[s][i] IN
        /\ t.pc \in {"dl_notice", "download", "tr_notice", "preview"}
        /\ IF t.must_cancel THEN RaiseInJob(s, i, t, "cancel")
           ELSE IF o = "fail" THEN RaiseInJob(s, i, t, "error")
           ELSE IF t.pc = "preview" THEN EnterAgent(s, i, t)
           ELSE Goto(s, i, [t EXCEPT !.pc = AudioNext(t.pc)])
        /\ UNCHANGED <<next_id, worker_task, cc, assigned, enq_idle, others>>

\* lines 230-237: transcribe_file; TranscriptionError is reported and the job returns
run_job_transcribe(s) ==
    \E i \in DOMAIN tasks[s] : \E o \in {"ok", "TranscriptionError"} :
        LET t == tasks[s][i] IN
        /\ t.pc = "transcribe"
        /\ IF t.must_cancel THEN RaiseInJob(s, i, t, "cancel")
           ELSE IF o = "ok" THEN Goto(s, i, [t EXCEPT !.pc = "preview"])
           ELSE Goto(s, i, Did([t EXCEPT !.pc = "tr_fail"], "transcription_failed"))
        /\ UNCHANGED <<next_id, worker_task, cc, assigned, enq_idle, others>>

\* line 233: send_chat("Transcription failed"), then return
run_job_tr_fail(s) ==
    \E i \in DOMAIN tasks[s] : \E o \in SendOutcomes :
        LET t == tasks[s][i] IN
        /\ t.pc = "tr_fail"
        /\ IF t.must_cancel THEN RaiseInJob(s, i, t, "cancel")
           ELSE IF o = "fail" THEN RaiseInJob(s, i, t, "error")
           ELSE EndJobLoop(s, i, Did(t, "transcribe_failed_msg"), "errored")
        /\ UNCHANGED <<next_id, worker_task, cc, assigned, enq_idle, others>>

\* heartbeat_loop while the job's heartbeat task is alive (created at line
\* 262, cancelled at line 313).  hb_message_id is "hb.message_id is not
\* None"; hb_left is "the chat holds a status display whose id hb no longer
\* has".  With no id the ping sends a new display (a failed send changes
\* nothing); with an id it edits the display (a successful edit changes
\* nothing), and a failed edit sets hb.message_id = None at line 35 while
\* the display stays in the chat.
heartbeat_loop(s) ==
    \E i \in DOMAIN tasks[s] : \E o \in SendOutcomes :
        LET t == tasks[s][i] IN
        /\ t.pc \in {"agent", "timeout_msg", "tgerr_msg"}
        /\ t.hb_message_id # (o = "ok")
        /\ Goto(s, i, [t EXCEPT !.hb_message_id = (o = "ok"),
                                !.hb_left = @ \/ t.hb_message_id])
        /\ UNCHANGED <<next_id, worker_task, cc, assigned, enq_idle, others>>

\* lines 293-311: the agent call ends; the except clauses run before the finally
run_job_agent(s) ==
    \E i \in DOMAIN tasks[s] : \E o \in AgentOutcomes :
        LET t == tasks[s][i] IN
        /\ t.pc = "agent"
        /\ IF t.must_cancel
              THEN Goto(s, i, [t EXCEPT !.pc = "hbwait", !.exc = "cancel", !.must_cancel = FALSE])
           ELSE IF o = "timeout" THEN Goto(s, i, [Did(t, "agent_timeout") EXCEPT !.pc = "timeout_msg"])
           ELSE IF o = "tgerror" THEN Goto(s, i, [t EXCEPT !.pc = "tgerr_msg"])
           ELSE IF o = "error" THEN Goto(s, i, [t EXCEPT !.pc = "hbwait", !.exc = "error"])
           ELSE Goto(s, i, [t EXCEPT !.pc = "hbwait", !.reply = o])
        /\ UNCHANGED <<next_id, worker_task, cc, assigned, enq_idle, others>>

\* lines 301-306 and 310-311: send_chat inside an except clause, then return
run_job_except_msg(s) ==
    \E i \in DOMAIN tasks[s] : \E o \in SendOutcomes :
        LET t == tasks[s][i] IN
        /\ t.pc \in {"timeout_msg", "tgerr_msg"}
        /\ IF t.must_cancel
              THEN Goto(s, i, [t EXCEPT !.pc = "hbwait", !.exc = "cancel", !.must_cancel = FALSE])
           ELSE IF o = "fail"
                   THEN Goto(s, i, [Did(t, "send_failed") EXCEPT !.pc = "hbwait", !.exc = "error"])
           ELSE Goto(s, i, [Did(t, t.pc) EXCEPT !.pc = "hbwait", !.exc = "return"])
        /\ UNCHANGED <<next_id, worker_task, cc, assigned, enq_idle, others>>

\* line 345, "await self._bg.start(...)" (bg_jobs.py lines 118-143): the
\* job is registered and the task of _run is created; start does not
\* suspend and returns at once.  The manager's state is followed for the
\* first background job only.
StartBg ==
    IF bg_job.exists
       THEN UNCHANGED bvars
       ELSE /\ bg_job' = [bg_job EXCEPT !.exists = TRUE]
            /\ run_pc' = "start"
            /\ UNCHANGED <<status_task, process, timers, bg_chat, cancel_calls>>

\* what follows the finally of lines 312-318: the pending exception or
\* return goes on, or lines 320-356 run up to the final send_chat
AfterFinally(s, i, t) ==
    CASE t.exc = "cancel" -> RaiseInJob(s, i, t, "cancel") /\ UNCHANGED bvars
      [] t.exc = "error" -> RaiseInJob(s, i, t, "error") /\ UNCHANGED bvars
      [] t.exc = "return" -> EndJobLoop(s, i, t, "errored") /\ UNCHANGED bvars
      [] OTHER ->
           /\ IF t.reply = "detach_ok" THEN StartBg ELSE UNCHANGED bvars
           /\ history' = [history EXCEPT ![s] =
                             Append(@, [role |-> "assistant", job |-> t.job.job_id,
                                        text |-> t.reply])]
           /\ bg_next_id' = IF t.reply = "detach_ok" THEN bg_next_id + 1 ELSE bg_next_id
           /\ tasks' = SetTask(s, i,
                  [(IF t.reply = "detach_ok"
                       THEN Did(Did(t, "bg_start"), "assistant_turn")
                       ELSE Did(t, "assistant_turn"))
                   EXCEPT !.pc = "send_final"])
           /\ out' = NoOut
           /\ UNCHANGED <<queue, current, begun>>

\* lines 313-315: hb_task.cancel(); with suppress(CancelledError): await hb_task.
\* The heartbeat task ends cancelled, and a CancelledError thrown into the
\* worker here is suppressed with it.
run_job_hbwait(s) ==
    \E i \in DOMAIN tasks[s] :
        LET t == tasks[s][i]
            u == [t EXCEPT !.must_cancel = FALSE]
        IN
        /\ t.pc = "hbwait"
        /\ IF t.hb_message_id
              THEN Goto(s, i, [u EXCEPT !.pc = "hbdel"]) /\ UNCHANGED bvars
              ELSE AfterFinally(s, i, u)
        /\ UNCHANGED <<next_id, worker_task, cc, assigned, enq_idle, dvars, svars, hvars>>

\* lines 316-318: delete_message under suppress(Exception): a failed delete
\* is ignored and the display stays; a CancelledError thrown into the await
\* replaces the pending exit, and the request may or may not have deleted
\* the display
run_job_hbdel(s) ==
    \E i \in DOMAIN tasks[s] : \E o \in SendOutcomes :
        LET t == tasks[s][i]
            u == [t EXCEPT !.hb_message_id = FALSE, !.hb_left = @ \/ (o = "fail")]
        IN
        /\ t.pc = "hbdel"
        /\ IF t.must_cancel
              THEN RaiseInJob(s, i, u, "cancel") /\ UNCHANGED bvars
              ELSE AfterFinally(s, i, u)
        /\ UNCHANGED <<next_id, worker_task, cc, assigned, enq_idle, dvars, svars, hvars>>

\* the final send as it would be if start had returned only when the
\* background process had exited
run_job_send_final_after_exit(s) ==
    \E i \in DOMAIN tasks[s] : \E o \in SendOutcomes :
        LET t == tasks[s][i] IN
        /\ t.pc = "send_final"
        /\ "bg_start" \in t.fx => process.state = "exited"
        /\ IF t.must_cancel THEN RaiseInJob(s, i, t, "cancel")
           ELSE IF o = "fail" THEN RaiseInJob(s, i, t, "error")
           ELSE EndJobLoop(s, i, Did(t, "delivered"),
                           IF t.reply = "detach_bad" THEN "errored" ELSE "completed")
        /\ UNCHANGED <<next_id, worker_task, cc, assigned, enq_idle, others>>

\* lines 331, 350, 356: the send_chat that ends the pipeline
run_job_send_final(s) ==
    \E i \in DOMAIN tasks[s] : \E o \in SendOutcomes :
        LET t == tasks[s][i] IN
        /\ t.pc = "send_final"
        /\ IF t.must_cancel THEN RaiseInJob(s, i, t, "cancel")
           ELSE IF o = "fail" THEN RaiseInJob(s, i, t, "error")
           ELSE EndJobLoop(s, i, Did(t, "delivered"),
                           IF t.reply = "detach_bad" THEN "errored" ELSE "completed")
        /\ UNCHANGED <<next_id, worker_task, cc, assigned, enq_idle, others>>

\* lines 166-172: send "Canceled." and re-raise
worker_canceled(s) ==
    \E i \in DOMAIN tasks[s] : \E o \in SendOutcomes :
        LET t == tasks[s][i] IN
        /\ t.pc = "canceled_msg"
        /\ IF t.must_cancel THEN EndJobRaise(s, i, t, "canceled", "cancelled")
           ELSE IF o = "fail" THEN EndJobRaise(s, i, t, "canceled", "failed")
           ELSE EndJobRaise(s, i, Did(t, "canceled_notice"), "canceled", "cancelled")
        /\ UNCHANGED <<next_id, worker_task, cc, assigned, enq_idle, others>>

\* the error report as a retrying worker would end it: the failed job is
\* made current again
worker_report_requeue(s) ==
    \E i \in DOMAIN tasks[s] : \E o \in SendOutcomes :
        LET t == tasks[s][i] IN
        /\ t.pc = "report_msg"
        /\ IF t.must_cancel THEN EndJobRaise(s, i, t, "aborted", "cancelled")
           ELSE IF o = "fail" THEN EndJobRaise(s, i, t, "errored", "failed")
           ELSE /\ out' = Summary(s, Did(t, "error_report"), "errored")
                /\ current' = [current EXCEPT ![s] = t.job]
                /\ tasks' = SetTask(s, i, [NewTask EXCEPT !.pc = "working", !.job = t.job])
                /\ begun' = [begun EXCEPT ![s] = Append(@, t.job.job_id)]
                /\ UNCHANGED <<queue, history, bg_next_id>>
        /\ UNCHANGED <<next_id, worker_task, cc, assigned, enq_idle, others>>

\* lines 173-179: log and send the error report
worker_report(s) ==
    \E i \in DOMAIN tasks[s] : \E o \in SendOutcomes :
        LET t == tasks[s][i] IN
        /\ t.pc = "report_msg"
        /\ IF t.must_cancel THEN EndJobRaise(s, i, t, "aborted", "cancelled")
           ELSE IF o = "fail" THEN EndJobRaise(s, i, t, "errored", "failed")
           ELSE EndJobLoop(s, i, Did(t, "error_report"), "errored")
        /\ UNCHANGED <<next_id, worker_task, cc, assigned, enq_idle, others>>

Next ==
    \E s \in Sessions :
        \/ enqueue_text(s)
        \/ enqueue_audio(s)
        \/ drop_pending(s)
        \/ cancel_and_clear(s)
        \/ cancel_await(s)
        \/ cancel_finish(s)
        \/ worker_start(s)
        \/ worker_working(s)
        \/ run_job_audio(s)
        \/ run_job_transcribe(s)
        \/ run_job_tr_fail(s)
        \/ heartbeat_loop(s)
        \/ run_job_agent(s)
        \/ run_job_except_msg(s)
        \/ run_job_hbwait(s)
        \/ run_job_hbdel(s)
        \/ run_job_send_final(s)
        \/ worker_canceled(s)
        \/ worker_report(s)

Spec == Init /\ [][Next]_vars

\* the event loop runs every task that is ready, and every awaited call of
\* the worker (a send, a download, the agent) ends: each step of a worker
\* and of a waiting cancel_and_clear is taken once it stays possible.  The
\* commands of the user (enqueue, drop_pending, cancel_and_clear) and the
\* heartbeat's pings are under no such obligation.
WorkerNext ==
    \E s \in Sessions :
        \/ worker_start(s)
        \/ worker_working(s)
        \/ run_job_audio(s)
        \/ run_job_transcribe(s)
        \/ run_job_tr_fail(s)
        \/ run_job_agent(s)
        \/ run_job_except_msg(s)
        \/ run_job_hbwait(s)
        \/ run_job_hbdel(s)
        \/ run_job_send_final(s)
        \/ worker_canceled(s)
        \/ worker_report(s)
        \/ cancel_await(s)
        \/ cancel_finish(s)

FairSpec == Init /\ [][Next]_vars /\ WF_vars(WorkerNext)

\* =====================================================================
\* Properties
\* =====================================================================

StrictlyIncreasing(seq) == \A a, b \in DOMAIN seq : a < b => seq[a] < seq[b]

QueueIds(s) == [k \in DOMAIN queue[s] |-> queue[s][k].job_id]

LiveTasks(s) == {i \in DOMAIN tasks[s] : ~Done(tasks[s][i])}

\* C1: job ids are handed out in enqueue order, so FIFO is: the ids the
\* worker has made current are strictly increasing, every pending job is
\* younger than every job begun, the pending list is in enqueue order; and
\* at most one task of a session holds a job, which is the session's current.
C1_FifoOneCurrent ==
    \A s \in Sessions :
        /\ StrictlyIncreasing(begun[s])
        /\ StrictlyIncreasing(QueueIds(s))
        /\ \A k \in DOMAIN queue[s] : \A b \in DOMAIN begun[s] :
               begun[s][b] < queue[s][k].job_id
        /\ Cardinality({i \in DOMAIN tasks[s] : tasks[s][i].job # NoJob}) <= 1
        /\ \A i \in DOMAIN tasks[s] :
               tasks[s][i].job # NoJob => current[s] = tasks[s][i].job

\* two jobs were enqueued and both have begun, the second one in flight
C1_Witness ==
    \E s \in Sessions :
        /\ Len(begun[s]) >= 2
        /\ \E i \in DOMAIN tasks[s] : tasks[s][i].job.job_id = begun[s][Len(begun[s])]

\* C2: a session never has two worker tasks that have not finished, and the
\* unfinished one is the one ChatQueue.worker_task names.
C2_OneWorker ==
    \A s \in Sessions :
        /\ Cardinality(LiveTasks(s)) <= 1
        /\ \A i \in LiveTasks(s) : worker_task[s] = i

\* a second worker was spawned after the first had finished, and runs
C2_Witness ==
    \E s \in Sessions :
        /\ Len(tasks[s]) >= 2
        /\ Done(tasks[s][1])
        /\ ~Done(tasks[s][Len(tasks[s])])

\* C3: when a cancel_and_clear that found a worker at some step has
\* completed (its await of the worker is over) and nothing was enqueued
\* meanwhile, snapshot reports no current job and no pending job.
C3_CancelLeavesNothing ==
    \A s \in Sessions :
        (cc[s].pc \in {"returned", "raised"} /\ cc[s].waited /\ ~cc[s].enq)
            => (current[s] = NoJob /\ queue[s] = <<>>)

\* a step of drop_pending, told by what it does: it returns a count, or it
\* empties the pending list without being cancel_and_clear (cc changes) or
\* the worker's pop (begun grows)
DropStep(s) ==
    \/ (out'.op = "drop_pending" /\ out'.s = s)
    \/ (queue[s] # <<>> /\ queue'[s] = <<>> /\ cc'[s] = cc[s] /\ begun'[s] = begun[s])

\* C4: drop_pending removes every pending job, returns how many there were,
\* and changes nothing else: not the current job, not the worker task or
\* the step it is at, not the id counter, not the history.
C4_DropPendingFrame ==
    [][\A s \in Sessions :
          DropStep(s) =>
             /\ queue'[s] = <<>>
             /\ out' = [op |-> "drop_pending", s |-> s, n |-> Len(queue[s])]
             /\ current'[s] = current[s]
             /\ worker_task'[s] = worker_task[s]
             /\ tasks'[s] = tasks[s]
             /\ next_id'[s] = next_id[s]
             /\ history'[s] = history[s]]_vars

\* drop_pending has just removed one pending job while another job is in
\* flight in the agent call; that job is still current and still running
C4_Witness ==
    \E s \in Sessions :
        /\ out = [op |-> "drop_pending", s |-> s, n |-> 1]
        /\ current[s] # NoJob
        /\ \E i \in DOMAIN tasks[s] :
               tasks[s][i].pc = "agent" /\ tasks[s][i].job = current[s]

\* C5: the id an enqueue returns was never returned before in the session
\* and is larger than every id returned before; it is the id of the job
\* the call appended.
C5_IdsStrictlyIncrease ==
    [][\A s \in Sessions :
          (out'.op = "enqueue" /\ out'.s = s) =>
             /\ out'.job_id \notin assigned[s]
             /\ \A a \in assigned[s] : a < out'.job_id
             /\ queue'[s] # <<>>
             /\ queue'[s][Len(queue'[s])].job_id = out'.job_id]_vars

\* a second id was assigned after the first worker had been cancelled or
\* had finished (a second worker was spawned for it)
C5_Witness ==
    \E s \in Sessions :
        /\ out.op = "enqueue" /\ out.s = s
        /\ out.job_id >= 2
        /\ Len(tasks[s]) >= 2

\* enqueue has just returned for A: the session had no worker running and
\* an empty queue
CallA == out.op = "enqueue" /\ out.idle

\* enqueue has just returned for B: the enqueue before it was such an A,
\* and A has not completed (it is pending, or a running worker holds it)
CallB == out.op = "enqueue" /\ out.prev_idle /\ (out.prev_pending \/ out.prev_running)

\* C6 as stated: A returns position 1 and started, B position 2 and not started.
C6_PositionsOneTwo ==
    /\ CallA => (out.pos = 1 /\ out.flag)
    /\ CallB => (out.pos = 2 /\ ~out.flag)

\* C6 amended: A returns position 1, and started unless the session still
\* records a current job; B returns not started and its position in the
\* pending list: 2 while A is pending, 1 once the worker has dequeued A.
C6_PositionInPendingList ==
    /\ CallA => (out.pos = 1 /\ out.flag = ~out.stale)
    /\ CallB => (~out.flag /\ out.pos = IF out.prev_pending THEN 2 ELSE 1)

\* B has just been enqueued while A was in flight, and got position 1
C6_Witness == CallB /\ out.prev_running /\ out.pos = 1

\* C7: under fair scheduling every pending job leaves the pending list
\* (the worker makes it current, or drop_pending or cancel_and_clear
\* removes it) without any further command.
C7_EveryJobServed ==
    \A s \in Sessions : \A j \in 1..MaxJobs :
        InQueue(s, j) ~> ~InQueue(s, j)

\* C8: when the pipeline has raised an exception other than cancellation
\* (the worker is about to send the error report), the report is sent,
\* current is cleared and the worker goes round the loop: it takes the
\* oldest pending job, or returns because none is pending.
C8_ErrorKeepsWorker ==
    [][\A s \in Sessions : \A i \in DOMAIN tasks[s] :
          (tasks[s][i].pc = "report_msg" /\ ~tasks[s][i].must_cancel
                /\ tasks'[s][i].pc # "report_msg") =>
             /\ out'.op = "job_end" /\ "error_report" \in out'.fx
             /\ IF queue[s] = <<>>
                   THEN current'[s] = NoJob /\ tasks'[s][i].result = "returned"
                   ELSE current'[s] = Head(queue[s]) /\ tasks'[s][i].job = Head(queue[s])]_vars

\* C9: no worker task is ended by the failure of a send.
C9_SendFailureKeepsWorker ==
    \A s \in Sessions : \A i \in DOMAIN tasks[s] : tasks[s][i].result # "failed"

\* the awaits inside _run_job
RunJobPcs ==
    {"dl_notice", "download", "tr_notice", "transcribe", "tr_fail", "preview",
     "agent", "timeout_msg", "tgerr_msg", "hbwait", "hbdel", "send_final"}

CompletionSteps == {"assistant_turn", "bg_start", "delivered"}

\* C10: a job that cancel_and_clear cancelled while it was suspended inside
\* _run_job performs no completion step afterwards, ends canceled (the
\* worker's except clause sends its one "Canceled." notice), and is begun
\* once only.
C10_CancelAborts ==
    \A s \in Sessions :
        /\ \A i \in DOMAIN tasks[s] :
               tasks[s][i].cancel_at \in RunJobPcs =>
                   tasks[s][i].after \cap CompletionSteps = {}
        /\ (out.op = "job_end" /\ out.s = s /\ out.cancel_at \in RunJobPcs) =>
               /\ out.after \cap CompletionSteps = {}
               /\ out.outcome = "canceled"
        /\ \A a, b \in DOMAIN begun[s] : a # b => begun[s][a] # begun[s][b]

\* the awaits a job reaches once the finally of lines 312-318 is over
AfterAgentPcs == {"send_final", "canceled_msg", "report_msg"}

\* C11: once the agent step is over (the pipeline goes on to the reply, or
\* the exception has reached the worker) no status display of the job is
\* left in the chat, and none is left when the job ends.
C11_NoDisplaySurvives ==
    \A s \in Sessions :
        /\ \A i \in DOMAIN tasks[s] :
               tasks[s][i].pc \in AfterAgentPcs =>
                   ~(tasks[s][i].hb_message_id \/ tasks[s][i].hb_left)
        /\ (out.op = "job_end" /\ out.s = s) => ~out.displays

\* the assistant turns the store holds for job j of session s
AssistantTurns(s, j) ==
    {k \in DOMAIN history[s] : history[s][k].role = "assistant" /\ history[s][k].job = j}

\* C12: a job whose agent call timed out appends no assistant turn and
\* starts no background job; unless it is cancelled, it ends having sent
\* the timeout message (or having failed to send it), and the worker is
\* still alive: it holds the next pending job or has returned on an empty
\* queue.
C12_TimeoutEndsJob ==
    \A s \in Sessions :
        /\ \A i \in DOMAIN tasks[s] :
               "agent_timeout" \in tasks[s][i].fx =>
                   /\ tasks[s][i].fx \cap {"assistant_turn", "bg_start"} = {}
                   /\ AssistantTurns(s, tasks[s][i].job.job_id) = {}
        /\ (out.op = "job_end" /\ out.s = s /\ "agent_timeout" \in out.fx
                /\ out.cancel_at = "none") =>
               /\ out.fx \cap {"assistant_turn", "bg_start"} = {}
               /\ AssistantTurns(s, out.job_id) = {}
               /\ ("timeout_msg" \in out.fx \/ "send_failed" \in out.fx)
               /\ tasks[s][worker_task[s]].result # "failed"

\* C27: while no cancel_and_clear is under way, a session with a pending or
\* a current job has an unfinished worker task, and a worker task that has
\* taken its first step and is unfinished has a pending or a current job.
C27_WorkerIffWork ==
    \A s \in Sessions :
        cc[s].pc = "idle" =>
            /\ (queue[s] # <<>> \/ current[s] # NoJob) => ~NeedsWorker(s)
            /\ (~NeedsWorker(s) /\ tasks[s][worker_task[s]].pc # "start") =>
                   (queue[s] # <<>> \/ current[s] # NoJob)

\* the ways a job ends: by return of _run_job, by an exception (reported,
\* or "crashed" when it left the worker unreported) or by a CancelledError
\* ("Canceled." attempted, or "aborted" when it left the worker directly)
Outcomes == {"completed", "errored", "crashed", "canceled", "aborted"}

\* the unfinished tasks of session s that hold job j
Holders(s, j) == {i \in LiveTasks(s) : tasks[s][i].job.job_id = j}

\* C28: a job is made current only from the head of the pending list and
\* only if it was never current before; a job id that has left the pending
\* list (dequeued, dropped or cleared) never enters it again; and a job
\* ends once, in one outcome, after which no task holds it. So a job
\* dropped or cleared while pending never becomes current.
C28_JobRunsOnce ==
    [][\A s \in Sessions :
          /\ \A j \in assigned[s] : ~InQueue(s, j) => ~InQueue(s, j)'
          /\ \/ begun'[s] = begun[s]
             \/ /\ queue[s] # <<>>
                /\ begun'[s] = Append(begun[s], Head(queue[s]).job_id)
                /\ \A k \in DOMAIN begun[s] : begun[s][k] # Head(queue[s]).job_id
                /\ current'[s] = Head(queue[s])
          /\ \A j \in assigned[s] :
                (out'.op = "job_end" /\ out'.s = s /\ out'.job_id = j) =>
                   /\ out'.outcome \in Outcomes
                   /\ Cardinality(Holders(s, j)) = 1
                   /\ Holders(s, j)' = {}
                   /\ ~InQueue(s, j)']_vars

\* job 1 has ended with an error report and job 2, dropped while it was
\* pending, has not become current
C28_Witness ==
    \E s \in Sessions :
        /\ out.op = "job_end" /\ out.s = s /\ out.job_id = 1
        /\ out.outcome = "errored" /\ "error_report" \in out.fx
        /\ 2 \in assigned[s] /\ ~InQueue(s, 2)
        /\ begun[s] = <<1>>

\* the user turns the store holds for job j of session s
UserTurns(s, j) ==
    {k \in DOMAIN history[s] : history[s][k].role = "user" /\ history[s][k].job = j}

\* the turns of job j in a list of turns
TurnsOf(turns, j) == {k \in DOMAIN turns : turns[k].job = j}

\* the awaits of a job before the locked block of lines 252-257
BeforeAgentPcs == {"working", "dl_notice", "download", "tr_notice", "transcribe", "tr_fail", "preview"}

\* C29: a job has no turn in the history before the locked block; the
\* block reads the view and appends the user turn in one step, so the
\* view holds no turn of the job and the prompt holds its user turn once;
\* while the agent runs the history holds that one user turn and no
\* assistant turn of the job; a plain reply is appended as the job's one
\* assistant turn, after the user turn, before the reply is sent, and the
\* job ends with exactly these two turns.
C29_OneTurnEachSide ==
    \A s \in Sessions :
        /\ \A i \in DOMAIN tasks[s] :
              LET t == tasks[s][i]
                  j == t.job.job_id
              IN  /\ t.pc \in BeforeAgentPcs =>
                        UserTurns(s, j) = {} /\ AssistantTurns(s, j) = {}
                  /\ t.pc = "agent" =>
                        Cardinality(UserTurns(s, j)) = 1 /\ AssistantTurns(s, j) = {}
                  /\ (t.pc = "send_final" /\ t.reply = "plain") =>
                        /\ Cardinality(UserTurns(s, j)) = 1
                        /\ Cardinality(AssistantTurns(s, j)) = 1
                        /\ "delivered" \notin t.fx
                        /\ \A k \in AssistantTurns(s, j) :
                              /\ history[s][k].text = "plain"
                              /\ \A u \in UserTurns(s, j) : u < k
        /\ (out.op = "prompt" /\ out.s = s) =>
              /\ TurnsOf(out.prior, out.job_id) = {}
              /\ Cardinality(TurnsOf(out.turns, out.job_id)) = 1
              /\ history[s] # <<>>
              /\ history[s][Len(history[s])] = out.turns[Len(out.turns)]
        /\ (out.op = "job_end" /\ out.s = s /\ out.outcome = "completed"
                /\ "bg_start" \notin out.fx) =>
              /\ {"user_turn", "assistant_turn", "delivered"} \subseteq out.fx
              /\ Cardinality(UserTurns(s, out.job_id)) = 1
              /\ Cardinality(AssistantTurns(s, out.job_id)) = 1

\* the second job of the session, a text job, got a plain reply and
\* delivered it; the history holds the first job's turns before its own
C29_Witness ==
    \E s \in Sessions :
        /\ out.op = "job_end" /\ out.s = s /\ out.job_id = 2
        /\ out.outcome = "completed" /\ "bg_start" \notin out.fx
        /\ out.cancel_at = "none"
        /\ Len(history[s]) = 4
        /\ history[s][3] = [role |-> "user", job |-> 2, text |-> "user"]
        /\ history[s][4] = [role |-> "assistant", job |-> 2, text |-> "plain"]

\* C30: a job whose transcription failed appends no user turn, starts no
\* heartbeat and never reaches the agent; unless it is cancelled, it ends
\* having sent an error message to the chat, and the worker is still
\* alive: it holds the next pending job or has returned on an empty queue.
C30_TranscriptionFailureStops ==
    \A s \in Sessions :
        /\ \A i \in DOMAIN tasks[s] :
              "transcription_failed" \in tasks[s][i].fx =>
                  /\ tasks[s][i].pc \in {"tr_fail", "canceled_msg", "report_msg"}
                  /\ "user_turn" \notin tasks[s][i].fx
                  /\ UserTurns(s, tasks[s][i].job.job_id) = {}
                  /\ ~tasks[s][i].hb_message_id /\ ~tasks[s][i].hb_left
        /\ (out.op = "job_end" /\ out.s = s /\ "transcription_failed" \in out.fx
                /\ out.cancel_at = "none") =>
              /\ "user_turn" \notin out.fx
              /\ UserTurns(s, out.job_id) = {}
              /\ ~out.displays
              /\ ("transcribe_failed_msg" \in out.fx \/ "error_report" \in out.fx)
              /\ tasks[s][worker_task[s]].result # "failed"

\* ---------------------------------------------------------------------
\* handlers.cmd_reset over the queue: the cancel_and_clear of this
\* specification is the one cmd_reset awaits at line 167
\* ---------------------------------------------------------------------

\* what a finished cmd_reset left: raised is "CancelledError left the
\* handler before reset_chat", task the worker it had cancelled (0: none)
ResetRecord(s, raised, task) == [op |-> "reset", s |-> s, raised |-> raised, task |-> task]

\* handlers.py lines 167-174 up to the first suspension: cancel_and_clear
\* clears the queue and cancels a live worker, then waits for it; with no
\* live worker nothing suspends, and reset_chat empties the history under
\* the state lock in the same step (the confirmation is sent afterwards)
cmd_reset(s) ==
    /\ cc[s].pc = "idle"
    /\ queue' = [queue EXCEPT ![s] = <<>>]
    /\ LET task == worker_task[s]
       IN IF task # 0 /\ ~Done(tasks[s][task])
             THEN /\ tasks' = [tasks EXCEPT ![s][task] = Cancel(@)]
                  /\ cc' = [cc EXCEPT ![s] = [pc |-> "await", task |-> task, waited |-> TRUE, enq |-> FALSE]]
                  /\ out' = NoOut
                  /\ UNCHANGED history
             ELSE /\ history' = [history EXCEPT ![s] = <<>>]
                  /\ out' = ResetRecord(s, FALSE, 0)
                  /\ UNCHANGED <<tasks, cc>>
    /\ UNCHANGED <<next_id, current, worker_task, bg_next_id,
                   assigned, enq_idle, begun, others>>

\* queue.py lines 146-147 resumed inside cmd_reset: a worker that ended
\* cancelled makes "await task" raise CancelledError, which suppress(Exception)
\* lets through, and cmd_reset ends there; otherwise reset_chat runs
cmd_reset_resume(s) ==
    /\ cc[s].pc = "await"
    /\ Done(tasks[s][cc[s].task])
    /\ cc' = [cc EXCEPT ![s] = CcIdle]
    /\ IF tasks[s][cc[s].task].result = "cancelled"
          THEN /\ out' = ResetRecord(s, TRUE, cc[s].task)
               /\ UNCHANGED history
          ELSE /\ out' = ResetRecord(s, FALSE, cc[s].task)
               /\ history' = [history EXCEPT ![s] = <<>>]
    /\ UNCHANGED <<next_id, queue, current, worker_task, tasks, bg_next_id,
                   assigned, enq_idle, begun, others>>

NextReset ==
    \E s \in Sessions :
        \/ enqueue_text(s)
        \/ enqueue_audio(s)
        \/ drop_pending(s)
        \/ cmd_reset(s)
        \/ cmd_reset_resume(s)
        \/ worker_start(s)
        \/ worker_working(s)
        \/ run_job_audio(s)
        \/ run_job_transcribe(s)
        \/ run_job_tr_fail(s)
        \/ heartbeat_loop(s)
        \/ run_job_agent(s)
        \/ run_job_except_msg(s)
        \/ run_job_hbwait(s)
        \/ run_job_hbdel(s)
        \/ run_job_send_final(s)
        \/ worker_canceled(s)
        \/ worker_report(s)

SpecReset == Init /\ [][NextReset]_vars

\* C25: when the reset command has finished (by return or by an exception),
\* the worker it cancelled has ended and the session's history is empty.
C25_ResetEmptiesHistory ==
    \A s \in Sessions :
        (out.op = "reset" /\ out.s = s) =>
            /\ out.task # 0 => Done(tasks[s][out.task])
            /\ history[s] = <<>>

\* ---------------------------------------------------------------------
\* Two sessions side by side: each has its own ChatQueue (lines 71-76)
\* and gets one text job
\* ---------------------------------------------------------------------

PairSessions == {1, 2}

InitPair == QueueInitOn(PairSessions) /\ DetachIdle /\ BgIdle /\ StoreIdle /\ HandlersIdle

\* the first enqueue_text of session s
enqueue_first(s) == assigned[s] = {} /\ enqueue_text(s)

NextPair ==
    \E s \in PairSessions :
        \/ enqueue_first(s)
        \/ drop_pending(s)
        \/ cancel_and_clear(s)
        \/ cancel_await(s)
        \/ cancel_finish(s)
        \/ worker_start(s)
        \/ worker_working(s)
        \/ heartbeat_loop(s)
        \/ run_job_agent(s)
        \/ run_job_except_msg(s)
        \/ run_job_hbwait(s)
        \/ run_job_hbdel(s)
        \/ run_job_send_final(s)
        \/ worker_canceled(s)
        \/ worker_report(s)

SpecPair == InitPair /\ [][NextPair]_vars

\* what the queue manager holds for session s
SessionState(s) == <<queue[s], current[s], next_id[s], worker_task[s], tasks[s]>>

\* C24: a step changes the pending list, current job, id counter, worker and
\* tasks of one session at most; an enqueue, a drop_pending and any step of
\* a cancel_and_clear on session s leave those of the other session as they
\* were; and a session's worker that is about to dequeue can do so while
\* the other session has a job in flight.
C24_SessionsIndependent ==
    [][\A s \in PairSessions : \A r \in PairSessions \ {s} :
          /\ SessionState(s)' # SessionState(s) => SessionState(r)' = SessionState(r)
          /\ ((out'.op \in {"enqueue", "drop_pending"} /\ out'.s = s) \/ cc'[s] # cc[s]) =>
                SessionState(r)' = SessionState(r)
          /\ (~NeedsWorker(s) /\ tasks[s][worker_task[s]].pc = "start"
                /\ current[r] # NoJob) => ENABLED worker_start(s)]_vars

\* both sessions have a current job, each awaiting its agent
C24_Witness ==
    /\ DOMAIN current = PairSessions
    /\ \A s \in PairSessions :
          /\ current[s] # NoJob
          /\ ~NeedsWorker(s)
          /\ tasks[s][worker_task[s]].pc = "agent"

\* =====================================================================
\* The reply handling of _run_job (lines 320-356) and
\* extract_detach_directive (tool_directives.py)
\* =====================================================================

\* the number of lines of an agent reply
MaxLines == 3

\* a line of text.splitlines(), and a line that json.loads parses to v
TextLine(str) == [k |-> "text", s |-> str]

JsonLine(v) == [k |-> "json", v |-> v]

\* JSON values as Python sees them after json.loads
None == [t |-> "none"]

Str(v) == [t |-> "str", s |-> v]

Num == [t |-> "num"]

List(q) == [t |-> "list", items |-> q]

\* a dict with the given keys; cmd is the value under "cmd"
Dict(keys, cmd) == [t |-> "dict", keys |-> keys, cmd |-> cmd]

\* values found under "cmd" in a directive
CmdValues ==
    {Str("make"), Str(""), Str(" "), Num,
     List(<<>>), List(<<Str("ls")>>), List(<<Str(" ")>>), List(<<Str("ls"), Num>>)}

\* the JSON objects of the replies: with no field, with a title only, with
\* a cmd only, with both
Dicts ==
    {Dict({}, None), Dict({"title"}, None), Dict({"cmd", "title"}, Str("make"))}
        \cup {Dict({"cmd"}, c) : c \in CmdValues}

SENTINEL == "TG_COURIER_TOOL: DETACH"

\* the lines a reply is made of: ordinary text, a whitespace line, the
\* sentinel as documented and in lower case with leading space, a JSON
\* object, a JSON value that is no object
Lines ==
    {TextLine("done"), TextLine(" "), TextLine(SENTINEL), TextLine(" tg_courier_tool: detach"),
     JsonLine(Num)} \cup {JsonLine(d) : d \in Dicts}

Replies == UNION {[1..n -> Lines] : n \in 0..MaxLines}

\* str.strip() and str.upper() on the strings above
Strip(str) ==
    CASE str = " " -> ""
      [] str = " tg_courier_tool: detach" -> "tg_courier_tool: detach"
      [] OTHER -> str

Upper(str) ==
    CASE str = "tg_courier_tool: detach" -> SENTINEL
      [] str = "done" -> "DONE"
      [] str = "make" -> "MAKE"
      [] str = "ls" -> "LS"
      [] OTHER -> str

\* "not lines[j].strip()"
IsBlank(l) == l.k = "text" /\ Strip(l.s) = ""

\* line 21: lines[i].strip().upper() == "TG_COURIER_TOOL: DETACH"
IsSentinel(l) == l.k = "text" /\ Upper(Strip(l.s)) = SENTINEL

\* "\n".join(lines).strip(), as lines: the blank lines at both ends go
RECURSIVE StripLines(_)
StripLines(q) ==
    IF q = <<>> THEN q
    ELSE IF IsBlank(Head(q)) THEN StripLines(Tail(q))
    ELSE IF IsBlank(q[Len(q)]) THEN StripLines(SubSeq(q, 1, Len(q) - 1))
    ELSE q

\* lines 18-38: the first sentinel line decides.  The next line that is not
\* blank must parse as a JSON object; anything else gives (None, raw).
extract_detach_directive(lines) ==
    LET S == {i \in DOMAIN lines : IsSentinel(lines[i])} IN
    IF S = {} THEN [spec |-> None, cleaned |-> StripLines(lines)]
    ELSE
      LET i == CHOOSE x \in S : \A y \in S : x <= y
          J == {j \in DOMAIN lines : j > i /\ ~IsBlank(lines[j])}
      IN
      IF J = {} THEN [spec |-> None, cleaned |-> lines]
      ELSE
        LET j == CHOOSE x \in J : \A y \in J : x <= y IN
        IF lines[j].k # "json" \/ lines[j].v.t # "dict"
           THEN [spec |-> None, cleaned |-> lines]
           ELSE [spec |-> lines[j].v,
                 cleaned |-> StripLines(SubSeq(lines, 1, i - 1) \o SubSeq(lines, j + 1, Len(lines)))]

\* Python's truth value of what extract_detach_directive returns as spec
Truthy(spec) == spec.t = "dict" /\ spec.keys # {}

\* detach_spec.get("cmd")
GetCmd(spec) == IF "cmd" \in spec.keys THEN spec.cmd ELSE None

\* line 323: isinstance(cmd_obj, str) and cmd_obj.strip()
IsShellCmd(c) == c.t = "str" /\ Strip(c.s) # ""

\* line 325: isinstance(cmd_obj, list) and all(isinstance(x, str) and x.strip() ...)
IsArgvCmd(c) ==
    c.t = "list" /\ \A n \in DOMAIN c.items : c.items[n].t = "str" /\ Strip(c.items[n].s) # ""

\* the launch notice of line 343 with the job id and the log path it
\* names, and the diagnostic of line 328
NoticeLine(id) == [k |-> "notice", job_id |-> id, log_path |-> id]

DiagLine == [k |-> "diag"]

\* line 345: cleaned.strip() + "\n\n" + msg
LaunchMsg(cleaned, id) ==
    IF cleaned # <<>> THEN cleaned \o <<TextLine(""), NoticeLine(id)>> ELSE <<NoticeLine(id)>>

\* the queue's variables but bg_next_id
qvars_but_bg ==
    <<next_id, queue, current, worker_task, tasks, history, cc, assigned, enq_idle, begun, out>>

\* the handling that appends the raw reply after a launch as well
detach_handle_raw_append ==
    /\ detach_pc = "reply"
    /\ LET r == extract_detach_directive(reply_text)
           cmd_obj == GetCmd(r.spec)
       IN
       IF Truthy(r.spec)
          THEN IF IsShellCmd(cmd_obj) \/ IsArgvCmd(cmd_obj)
                  THEN /\ bg_started' = Append(bg_started, [job_id |-> bg_next_id, cmd |-> cmd_obj])
                       /\ bg_next_id' = bg_next_id + 1
                       /\ appended' = Append(appended, reply_text)
                  ELSE /\ appended' = Append(appended, <<DiagLine>>)
                       /\ UNCHANGED <<bg_started, bg_next_id>>
          ELSE /\ appended' = Append(appended, reply_text)
               /\ UNCHANGED <<bg_started, bg_next_id>>
    /\ detach_pc' = "send"
    /\ UNCHANGED <<reply_text, sent, qvars_but_bg, bvars, svars, hvars>>

\* lines 320-356 up to the send_chat that ends each branch: BgJobManager.start
\* (bg_jobs.py 126-143) takes the next id and does not suspend
detach_handle ==
    /\ detach_pc = "reply"
    /\ LET r == extract_detach_directive(reply_text)
           cmd_obj == GetCmd(r.spec)
       IN
       IF Truthy(r.spec)
          THEN IF IsShellCmd(cmd_obj) \/ IsArgvCmd(cmd_obj)
                  THEN /\ bg_started' = Append(bg_started, [job_id |-> bg_next_id, cmd |-> cmd_obj])
                       /\ bg_next_id' = bg_next_id + 1
                       /\ appended' = Append(appended, LaunchMsg(r.cleaned, bg_next_id))
                  ELSE /\ appended' = Append(appended, <<DiagLine>>)
                       /\ UNCHANGED <<bg_started, bg_next_id>>
          ELSE /\ appended' = Append(appended, reply_text)
               /\ UNCHANGED <<bg_started, bg_next_id>>
    /\ detach_pc' = "send"
    /\ UNCHANGED <<reply_text, sent, qvars_but_bg, bvars, svars, hvars>>

\* lines 331, 350, 356: send_chat of the text just appended; then return
detach_send ==
    /\ detach_pc = "send"
    /\ \E o \in SendOutcomes :
          IF o = "ok"
             THEN sent' = Append(sent, appended[Len(appended)]) /\ detach_pc' = "returned"
             ELSE sent' = sent /\ detach_pc' = "raised"
    /\ UNCHANGED <<reply_text, bg_started, appended, bg_next_id, qvars_but_bg, bvars, svars, hvars>>

\* the agent has returned some reply of at most MaxLines lines
InitDetach ==
    /\ QueueInit
    /\ BgIdle
    /\ StoreIdle /\ HandlersIdle
    /\ reply_text \in Replies
    /\ detach_pc = "reply"
    /\ bg_started = <<>>
    /\ appended = <<>>
    /\ sent = <<>>

NextDetach == detach_handle \/ detach_send

SpecDetach == InitDetach /\ [][NextDetach]_vars

\* a cmd the directive format allows: a command string, or an argv list
ValidCmd(c) == IsShellCmd(c) \/ (IsArgvCmd(c) /\ c.items # <<>>)

\* lines i..j of r are a sentinel line, blank lines, and a JSON object
DirectiveAt(r, i, j) ==
    /\ i \in DOMAIN r /\ j \in DOMAIN r /\ i < j
    /\ IsSentinel(r[i])
    /\ \A m \in (i + 1)..(j - 1) : IsBlank(r[m])
    /\ r[j].k = "json" /\ r[j].v.t = "dict"

\* r holds a well-formed directive somewhere
HasDirective(r) ==
    \E i, j \in DOMAIN r : DirectiveAt(r, i, j) /\ ValidCmd(GetCmd(r[j].v))

\* lines i..j hold a directive and i is the first sentinel line of r
FirstDirectiveAt(r, i, j) ==
    DirectiveAt(r, i, j) /\ \A m \in 1..(i - 1) : ~IsSentinel(r[m])

\* the text has a launch notice for background job id, and a line of it
\* says so last
EndsWithNotice(text, id) == text # <<>> /\ text[Len(text)] = NoticeLine(id)

C14_BadDirectiveDiagnosed ==
    \A i, j \in DOMAIN reply_text :
        (detach_pc # "reply" /\ FirstDirectiveAt(reply_text, i, j)
              /\ ~ValidCmd(GetCmd(reply_text[j].v))) =>
            /\ bg_started = <<>>
            /\ appended = <<<<DiagLine>>>>
            /\ detach_pc = "returned" => sent = appended

\* =====================================================================
\* BgJobManager (bg_jobs.py): one background job, its _run task, its
\* status task, its child process and the hard_kill timers of cancel.
\* "async with self._lock" never suspends: no holder awaits inside it.
\* =====================================================================

\* the number of cancel calls the environment makes
MaxCancels == 2

\* the ids cancel is called with: the job's, and one no job has
BgIds == {1, 2}

\* the queue's variables but bg_next_id and out
qvars_but_bg_out ==
    <<next_id, queue, current, worker_task, tasks, history, cc, assigned, enq_idle, begun>>

Event(e) == [bg_chat EXCEPT !.events = Append(@, e)]

\* lines 118-143: start registers the job under the next id and creates
\* the task of _run
bg_start ==
    /\ ~bg_job.exists
    /\ bg_next_id' = bg_next_id + 1
    /\ bg_job' = [bg_job EXCEPT !.exists = TRUE]
    /\ run_pc' = "start"
    /\ out' = [op |-> "bg_start", job_id |-> bg_next_id]
    /\ UNCHANGED <<status_task, process, timers, bg_chat, cancel_calls, dvars, svars, hvars, qvars_but_bg_out>>

\* lines 188-216: _run up to "await asyncio.create_subprocess_exec(...)";
\* the status task is created on the way
bg_run_start ==
    /\ run_pc = "start"
    /\ run_pc' = "spawn"
    /\ status_task' = [pc |-> "start", must_cancel |-> FALSE]
    /\ out' = NoOut
    /\ UNCHANGED <<bg_job, process, timers, bg_chat, cancel_calls, bg_next_id, dvars, svars, hvars, qvars_but_bg_out>>

\* lines 210-220: the child is running and _run awaits proc.wait(), or
\* create_subprocess_exec raised and the task of _run ends with it
bg_run_spawned ==
    /\ run_pc = "spawn"
    /\ \E o \in {"ok", "raise"} :
          IF o = "ok"
             THEN /\ process' = [process EXCEPT !.state = "running"]
                  /\ bg_job' = [bg_job EXCEPT !.proc = TRUE]
                  /\ run_pc' = "wait"
             ELSE /\ run_pc' = "failed"
                  /\ UNCHANGED <<process, bg_job>>
    /\ out' = NoOut
    /\ UNCHANGED <<status_task, timers, bg_chat, cancel_calls, bg_next_id, dvars, svars, hvars, qvars_but_bg_out>>

\* the child exits: by itself, on SIGTERM, or on SIGKILL
process_exit ==
    /\ process.state = "running"
    /\ process' = [process EXCEPT !.state = "exited"]
    /\ out' = NoOut
    /\ UNCHANGED <<bg_job, run_pc, status_task, timers, bg_chat, cancel_calls, bg_next_id, dvars, svars, hvars,
                   qvars_but_bg_out>>

\* lines 228-243 after "await status_task": delete the display if its id
\* is known, else go on to the completion notice
AfterStatus(chat) ==
    /\ bg_chat' = [chat EXCEPT !.events = Append(@, "status_stopped")]
    /\ run_pc' = IF bg_job.status_message_id THEN "delete" ELSE "notify"

\* lines 220-227: proc.wait() returned: record exit code and end time,
\* cancel the status task and await it (no wait if it is done already)
bg_run_waited ==
    /\ run_pc = "wait"
    /\ process.state = "exited"
    /\ bg_job' = [bg_job EXCEPT !.ended = TRUE]
    /\ IF status_task.pc = "done"
          THEN /\ AfterStatus(Event("exit_recorded"))
               /\ UNCHANGED status_task
          ELSE /\ status_task' = [status_task EXCEPT !.must_cancel = TRUE]
               /\ bg_chat' = Event("exit_recorded")
               /\ run_pc' = "status_wait"
    /\ out' = NoOut
    /\ UNCHANGED <<process, timers, cancel_calls, bg_next_id, dvars, svars, hvars, qvars_but_bg_out>>

\* lines 226-227: "with suppress(CancelledError): await status_task" is over
bg_run_joined ==
    /\ run_pc = "status_wait"
    /\ status_task.pc = "done"
    /\ AfterStatus(bg_chat)
    /\ out' = NoOut
    /\ UNCHANGED <<bg_job, status_task, process, timers, cancel_calls, bg_next_id, dvars, svars, hvars,
                   qvars_but_bg_out>>

\* a delete_message whose failure ends the task of _run
bg_run_delete_raising ==
    /\ run_pc = "delete"
    /\ \E o \in SendOutcomes :
          IF o = "ok"
             THEN /\ bg_chat' = [Event("display_deleted") EXCEPT !.display = "deleted"]
                  /\ run_pc' = "notify"
             ELSE /\ bg_chat' = [bg_chat EXCEPT !.delete_failed = TRUE]
                  /\ run_pc' = "failed"
    /\ out' = NoOut
    /\ UNCHANGED <<bg_job, status_task, process, timers, cancel_calls, bg_next_id, dvars, svars, hvars,
                   qvars_but_bg_out>>

\* lines 228-230: delete_message under suppress(Exception)
bg_run_delete ==
    /\ run_pc = "delete"
    /\ \E o \in SendOutcomes :
          bg_chat' = IF o = "ok"
                        THEN [Event("display_deleted") EXCEPT !.display = "deleted"]
                        ELSE [bg_chat EXCEPT !.delete_failed = TRUE]
    /\ run_pc' = "notify"
    /\ out' = NoOut
    /\ UNCHANGED <<bg_job, status_task, process, timers, cancel_calls, bg_next_id, dvars, svars, hvars,
                   qvars_but_bg_out>>

\* lines 239-243: send_chat of the completion notice
bg_run_notify ==
    /\ run_pc = "notify"
    /\ \E o \in SendOutcomes :
          IF o = "ok"
             THEN /\ bg_chat' = [Event("notice") EXCEPT !.notices = @ + 1]
                  /\ run_pc' = "done"
             ELSE /\ run_pc' = "failed"
                  /\ UNCHANGED bg_chat
    /\ out' = NoOut
    /\ UNCHANGED <<bg_job, status_task, process, timers, cancel_calls, bg_next_id, dvars, svars, hvars,
                   qvars_but_bg_out>>

StatusDone == [pc |-> "done", must_cancel |-> FALSE]

\* lines 97-100: the status task's first step, up to the send_message of
\* _ensure_status_message; a task cancelled before it ran never runs
status_loop_start ==
    /\ status_task.pc = "start"
    /\ status_task' = IF status_task.must_cancel THEN StatusDone
                      ELSE [status_task EXCEPT !.pc = "send"]
    /\ out' = NoOut
    /\ UNCHANGED <<bg_job, run_pc, process, timers, bg_chat, cancel_calls, bg_next_id, dvars, svars, hvars,
                   qvars_but_bg_out>>

\* lines 86-105: the send_message ends.  Delivered: the id is kept and the
\* loop sleeps.  Failed: logged, and _status_loop returns at line 102.
\* Cancelled in the await: CancelledError is no Exception, the task ends
\* without an id, and the request may or may not have posted the display.
status_loop_sent ==
    /\ status_task.pc = "send"
    /\ IF status_task.must_cancel
          THEN /\ \E posted \in BOOLEAN :
                     bg_chat' = [bg_chat EXCEPT !.display = IF posted THEN "shown" ELSE @]
               /\ status_task' = StatusDone
               /\ UNCHANGED bg_job
          ELSE \E o \in SendOutcomes :
                  IF o = "ok"
                     THEN /\ bg_chat' = [bg_chat EXCEPT !.display = "shown"]
                          /\ bg_job' = [bg_job EXCEPT !.status_message_id = TRUE]
                          /\ status_task' = [status_task EXCEPT !.pc = "sleep"]
                     ELSE /\ status_task' = StatusDone
                          /\ UNCHANGED <<bg_chat, bg_job>>
    /\ out' = NoOut
    /\ UNCHANGED <<run_pc, process, timers, cancel_calls, bg_next_id, dvars, svars, hvars, qvars_but_bg_out>>

\* lines 105-114: the sleep ends: return if the job has ended, else send
\* the edit of the display
status_loop_wake ==
    /\ status_task.pc = "sleep"
    /\ IF status_task.must_cancel \/ bg_job.ended
          THEN status_task' = StatusDone /\ UNCHANGED bg_chat
          ELSE /\ status_task' = [status_task EXCEPT !.pc = "edit"]
               /\ bg_chat' = [bg_chat EXCEPT !.late_edit = @ \/ bg_job.ended]
    /\ out' = NoOut
    /\ UNCHANGED <<bg_job, run_pc, process, timers, cancel_calls, bg_next_id, dvars, svars, hvars,
                   qvars_but_bg_out>>

\* lines 108-116: the edit ends, delivered or failed (logged): sleep again
status_loop_edited ==
    /\ status_task.pc = "edit"
    /\ status_task' = IF status_task.must_cancel THEN StatusDone
                      ELSE [status_task EXCEPT !.pc = "sleep"]
    /\ out' = NoOut
    /\ UNCHANGED <<bg_job, run_pc, process, timers, bg_chat, cancel_calls, bg_next_id, dvars, svars, hvars,
                   qvars_but_bg_out>>

\* what cancel returned, and what the job was when it was called
CancelRecord(id, ret) ==
    [op |-> "bg_cancel", job_id |-> id, ret |-> ret,
     known |-> (id = 1 /\ bg_job.exists),
     alive |-> (id = 1 /\ process.state = "running"),
     finished |-> (id = 1 /\ process.state = "exited"),
     trues_before |-> cancel_calls.true]

\* lines 165-185: False for an unknown job, for a job with no process yet
\* and for one whose process has a returncode; else SIGTERM is sent, the
\* task of hard_kill is created, and True is returned
bg_cancel(id) ==
    /\ cancel_calls.made < MaxCancels
    /\ IF id = 1 /\ bg_job.exists /\ bg_job.proc /\ process.state = "running"
          THEN /\ process' = [process EXCEPT !.term = TRUE]
               /\ timers' = timers + 1
               /\ out' = CancelRecord(id, TRUE)
               /\ cancel_calls' = [made |-> cancel_calls.made + 1, true |-> cancel_calls.true + 1]
          ELSE /\ out' = CancelRecord(id, FALSE)
               /\ cancel_calls' = [cancel_calls EXCEPT !.made = @ + 1]
               /\ UNCHANGED <<process, timers>>
    /\ UNCHANGED <<bg_job, run_pc, status_task, bg_chat, bg_next_id, dvars, svars, hvars, qvars_but_bg_out>>

\* a hard_kill that sleeps and returns
hard_kill_no_kill ==
    /\ timers > 0
    /\ timers' = timers - 1
    /\ out' = NoOut
    /\ UNCHANGED <<process, bg_job, run_pc, status_task, bg_chat, cancel_calls, bg_next_id, dvars, svars, hvars,
                   qvars_but_bg_out>>

\* lines 178-182: the 10 seconds are over: kill unless proc.returncode is set
hard_kill ==
    /\ timers > 0
    /\ timers' = timers - 1
    /\ process' = IF process.state = "running" THEN [process EXCEPT !.kill = TRUE] ELSE process
    /\ out' = NoOut
    /\ UNCHANGED <<bg_job, run_pc, status_task, bg_chat, cancel_calls, bg_next_id, dvars, svars, hvars,
                   qvars_but_bg_out>>

InitBg == QueueInit /\ DetachIdle /\ BgIdle /\ StoreIdle /\ HandlersIdle

NextBg ==
    \/ bg_start
    \/ bg_run_start
    \/ bg_run_spawned
    \/ process_exit
    \/ bg_run_waited
    \/ bg_run_joined
    \/ bg_run_delete
    \/ bg_run_notify
    \/ status_loop_start
    \/ status_loop_sent
    \/ status_loop_wake
    \/ status_loop_edited
    \/ \E id \in BgIds : bg_cancel(id)
    \/ hard_kill

SpecBg == InitBg /\ [][NextBg]_vars

\* SIGKILL cannot be ignored: a killed child exits
process_exit_killed == process.kill /\ process_exit

\* the event loop runs the hard_kill task when its sleep is over, and a
\* killed child exits; a child that was only sent SIGTERM may go on
FairSpecBg == SpecBg /\ WF_vars(hard_kill) /\ WF_vars(process_exit_killed)

\* C15: over any sequence of cancel calls on one background job, cancel
\* returns True at most once, returns True only for a job whose process
\* runs, returns True on the first call made while the process runs, and
\* returns False for an unknown job and for a finished one.
C15_CancelTrueOnce ==
    /\ cancel_calls.true <= 1
    /\ out.op = "bg_cancel" =>
          /\ out.ret => out.alive
          /\ (~out.known \/ out.finished) => ~out.ret
          /\ (out.alive /\ out.trues_before = 0) => out.ret

\* one step of the two-phase cancellation
C16_Step ==
    /\ (out'.op = "bg_cancel" /\ out'.ret) =>
          /\ process.state = "running"
          /\ process' = [process EXCEPT !.term = TRUE]
          /\ timers' = timers + 1
          /\ run_pc' = run_pc
    /\ timers' < timers => process'.kill = (process.kill \/ process.state = "running")
    /\ (process'.kill /\ ~process.kill) => (timers' < timers /\ process.term)

\* C16: a cancel that returns True has sent SIGTERM and created the timer
\* task in the same step, without waiting for the process; when a timer
\* fires the kill is sent if and only if the process has not exited, and
\* nothing else sends it; a process that was sent SIGTERM eventually exits.
C16_TwoPhaseCancel ==
    /\ [][C16_Step]_vars
    /\ (process.term ~> process.state = "exited")

\* a cancelled process ignored SIGTERM, was killed by the timer and exited
C16_Witness ==
    /\ cancel_calls.true >= 1
    /\ process.term /\ process.kill
    /\ process.state = "exited"
    /\ timers = 0

Pos(e) == CHOOSE i \in DOMAIN bg_chat.events : bg_chat.events[i] = e

Happened(e) == \E i \in DOMAIN bg_chat.events : bg_chat.events[i] = e

Before(a, b) == Happened(b) => (Happened(a) /\ Pos(a) < Pos(b))

\* C17: after the process exits the supervisor records the exit, then
\* stops the status loop, then deletes the display, then posts the notice;
\* no edit is sent for an ended job; a finished supervisor has posted
\* exactly one notice and has left no display, unless the delete itself
\* failed.
C17_EndedJobCleanedUp ==
    /\ ~bg_chat.late_edit
    /\ Before("exit_recorded", "status_stopped")
    /\ Before("status_stopped", "display_deleted")
    /\ Before("status_stopped", "notice")
    /\ (Happened("display_deleted") /\ Happened("notice")) =>
          Pos("display_deleted") < Pos("notice")
    /\ run_pc = "done" =>
          /\ bg_chat.notices = 1
          /\ bg_chat.display = "shown" => bg_chat.delete_failed

\* ---------------------------------------------------------------------
\* StateStore (state.py): the JSON document of the chats in one file,
\* modelled on its own.  A Python value is None, IntVal(n), Str(s), List(q)
\* or Obj(m); a dict keeps the order in which its keys were inserted, so
\* Obj holds a sequence of members.
\* ---------------------------------------------------------------------

\* the messages one chat can hold
MaxMsgs == 1

\* the last value of the clock
MaxClock == 1

ChatIds == {7}

Roles == {"user", "assistant"}

Texts == {"a"}

PrefKeys == {"codex_yolo"}

MaxTurns == {0, 1}

UserIds == {5}

IntVal(n) == [t |-> "int", n |-> n]

Bool(b) == [t |-> "bool", b |-> b]

Obj(m) == [t |-> "obj", members |-> m]

Member(k, v) == [k |-> k, v |-> v]

\* what dict.get returns for a key that is not there, before the default
Missing == [t |-> "missing"]

\* str(chat_id)
ToStr(n) == <<"0", "1", "2", "3", "4", "5", "6", "7", "8", "9">>[n + 1]

\* int(time.time() * 1000)
NowMs == IntVal(clock * 1000)

Has(o, k) == \E i \in DOMAIN o.members : o.members[i].k = k

\* o.get(k)
Get(o, k) ==
    IF Has(o, k)
       THEN o.members[CHOOSE i \in DOMAIN o.members : o.members[i].k = k].v
       ELSE Missing

\* o[k] = v: a key that is there keeps its place, a new key goes last
Put(o, k, v) ==
    IF Has(o, k)
       THEN Obj([i \in DOMAIN o.members |->
                    IF o.members[i].k = k THEN Member(k, v) ELSE o.members[i]])
       ELSE Obj(Append(o.members, Member(k, v)))

\* "not v" for the values a document holds
Falsy(v) ==
    \/ v \in {Missing, None}
    \/ v.t = "obj" /\ v.members = <<>>
    \/ v.t = "list" /\ v.items = <<>>
    \/ v.t = "int" /\ v.n = 0
    \/ v.t = "str" /\ v.s = ""
    \/ v.t = "bool" /\ ~v.b

\* {"version": 1, "claimed_user_id": None, "chats": {}}
Fresh ==
    Obj(<<Member("version", IntVal(1)), Member("claimed_user_id", None),
          Member("chats", Obj(<<>>))>>)

\* the text of a file is a sequence of tokens: the punctuation of JSON,
\* the scalars, and the newline that save adds
Tok(x) == [t |-> x]

RECURSIVE dumps(_), JoinItems(_), JoinMembers(_)

\* json.dumps(v, ensure_ascii=False, indent=2)
dumps(v) ==
    CASE v.t = "list" -> <<Tok("[")>> \o JoinItems(v.items) \o <<Tok("]")>>
      [] v.t = "obj" -> <<Tok("{")>> \o JoinMembers(v.members) \o <<Tok("}")>>
      [] OTHER -> <<v>>

JoinItems(q) ==
    IF q = <<>> THEN <<>>
    ELSE dumps(Head(q)) \o (IF Len(q) > 1 THEN <<Tok(",")>> ELSE <<>>) \o JoinItems(Tail(q))

JoinMembers(m) ==
    IF m = <<>> THEN <<>>
    ELSE <<Str(Head(m).k), Tok(":")>> \o dumps(Head(m).v)
            \o (IF Len(m) > 1 THEN <<Tok(",")>> ELSE <<>>) \o JoinMembers(Tail(m))

At(toks, i) == IF i \in DOMAIN toks THEN toks[i] ELSE Tok("eof")

ParseFail == [ok |-> FALSE, val |-> None, next |-> 0]

ParseOk(v, n) == [ok |-> TRUE, val |-> v, next |-> n]

RECURSIVE ParseValue(_, _), ParseItems(_, _, _), ParseMembers(_, _, _)

\* the JSON value that starts at token i, and where it ends
ParseValue(toks, i) ==
    LET tok == At(toks, i) IN
    CASE tok.t \in {"none", "int", "str", "bool"} -> ParseOk(tok, i + 1)
      [] tok.t = "[" -> IF At(toks, i + 1).t = "]" THEN ParseOk(List(<<>>), i + 2)
                        ELSE ParseItems(toks, i + 1, <<>>)
      [] tok.t = "{" -> IF At(toks, i + 1).t = "}" THEN ParseOk(Obj(<<>>), i + 2)
                        ELSE ParseMembers(toks, i + 1, Obj(<<>>))
      [] OTHER -> ParseFail

ParseItems(toks, i, acc) ==
    LET r == ParseValue(toks, i) IN
    IF ~r.ok THEN ParseFail
    ELSE IF At(toks, r.next).t = "," THEN ParseItems(toks, r.next + 1, Append(acc, r.val))
    ELSE IF At(toks, r.next).t = "]" THEN ParseOk(List(Append(acc, r.val)), r.next + 1)
    ELSE ParseFail

ParseMembers(toks, i, acc) ==
    IF At(toks, i).t # "str" \/ At(toks, i + 1).t # ":" THEN ParseFail
    ELSE LET r == ParseValue(toks, i + 2) IN
         IF ~r.ok THEN ParseFail
         ELSE IF At(toks, r.next).t = ","
                 THEN ParseMembers(toks, r.next + 1, Put(acc, toks[i].s, r.val))
         ELSE IF At(toks, r.next).t = "}"
                 THEN ParseOk(Put(acc, toks[i].s, r.val), r.next + 1)
         ELSE ParseFail

\* json.loads(text): one value, then white space only; ok is FALSE where
\* json.loads raises
loads(text) ==
    LET r == ParseValue(text, 1) IN
    IF r.ok /\ \A j \in r.next..Len(text) : text[j].t = "nl" THEN r ELSE ParseFail

\* a file with this text; saved: StateStore.save put it there
File(text, saved) == [exists |-> TRUE, text |-> text, saved |-> saved]

PrefValues == {Bool(TRUE)}

\* how tmp.write_text ends: "ok"; "none": the open failed; "half": the
\* write failed after half of the text
Writes == {"ok", "none", "half"}

Written(text, w) == IF w = "half" THEN SubSeq(text, 1, Len(text) \div 2) ELSE text

\* the load that returns the fresh document and leaves the file
load_no_rename ==
    IF ~state_file.exists
       THEN [data |-> Fresh, file |-> state_file, backups |-> backups, renamed |-> FALSE]
       ELSE LET r == loads(state_file.text) IN
            IF r.ok
               THEN [data |-> r.val, file |-> state_file, backups |-> backups, renamed |-> FALSE]
               ELSE [data |-> Fresh, file |-> state_file, backups |-> backups, renamed |-> FALSE]

\* lines 26-34: the document load returns, and the files it leaves
load ==
    IF ~state_file.exists
       THEN [data |-> Fresh, file |-> state_file, backups |-> backups, renamed |-> FALSE]
       ELSE LET r == loads(state_file.text) IN
            IF r.ok
               THEN [data |-> r.val, file |-> state_file, backups |-> backups, renamed |-> FALSE]
               ELSE [data |-> Fresh, file |-> Absent,
                     backups |-> {b \in backups : b.ts # clock}
                                    \cup {[ts |-> clock, text |-> state_file.text]},
                     renamed |-> TRUE]

\* the save that writes the target itself
save_in_place(path, data, w) ==
    LET text == dumps(data) \o <<Tok("nl")>> IN
    /\ state_file' = IF w = "none" THEN path ELSE File(Written(text, w), TRUE)
    /\ tmp_file' = tmp_file

\* the save that counts the version up
save_stamped(path, data, w) ==
    LET text == dumps(Put(data, "version", IntVal(Get(data, "version").n + 1)))
                   \o <<Tok("nl")>>
    IN
    /\ state_file' = IF w = "ok" THEN File(text, TRUE) ELSE path
    /\ tmp_file' = CASE w = "ok" -> Absent
                     [] w = "none" -> tmp_file
                     [] OTHER -> File(Written(text, w), FALSE)

\* lines 36-39: write the text to the tmp file, then rename it over the
\* target; path is the target as the caller's load has left it
save(path, data, w) ==
    LET text == dumps(data) \o <<Tok("nl")>> IN
    /\ state_file' = IF w = "ok" THEN File(text, TRUE) ELSE path
    /\ tmp_file' = CASE w = "ok" -> Absent
                     [] w = "none" -> tmp_file
                     [] OTHER -> File(Written(text, w), FALSE)

\* what a store operation did: raised is TRUE when it ended in an
\* exception, renamed when its load moved the file aside, had when the
\* target was a file that save had written
StoreOut(op, w, ret, l) ==
    [op |-> op, raised |-> w \notin {"ok", "read"}, ret |-> ret,
     renamed |-> l.renamed, had |-> state_file.saved]

NewChat ==
    Obj(<<Member("created_at_ms", NowMs), Member("updated_at_ms", NowMs),
          Member("messages", List(<<>>)), Member("prefs", Obj(<<>>))>>)

\* data.setdefault("chats", {})
WithChats(data) == IF Has(data, "chats") THEN data ELSE Put(data, "chats", Obj(<<>>))

\* chats.get(str(chat_id)), or the new chat "if not chat"
ChatOf(data, c) ==
    LET chat == Get(Get(WithChats(data), "chats"), ToStr(c)) IN
    IF Falsy(chat) THEN NewChat ELSE chat

\* a write of the chat's entry that rebuilds the "chats" object around it
SetChat_alone(data, c, chat) ==
    Put(WithChats(data), "chats", Obj(<<Member(ToStr(c), chat)>>))

SetChat(data, c, chat) ==
    Put(WithChats(data), "chats", Put(Get(WithChats(data), "chats"), ToStr(c), chat))

MessagesOf(chat) == IF Has(chat, "messages") THEN Get(chat, "messages") ELSE List(<<>>)

\* append as it would be if the list were cut to the newest message
Appended_keep_last(data, c, role, text) ==
    LET chat == Put(ChatOf(data, c), "updated_at_ms", NowMs)
        m == Obj(<<Member("role", Str(role)), Member("text", Str(text)), Member("ts_ms", NowMs)>>)
    IN SetChat(data, c, Put(chat, "messages", List(<<m>>)))

\* lines 91-108: the document append saves
Appended(data, c, role, text) ==
    LET chat == Put(ChatOf(data, c), "updated_at_ms", NowMs)
        m == Obj(<<Member("role", Str(role)), Member("text", Str(text)), Member("ts_ms", NowMs)>>)
    IN SetChat(data, c, Put(chat, "messages", List(Append(MessagesOf(chat).items, m))))

\* lines 70-89: the document set_pref saves
WithPref(data, c, key, value) ==
    LET chat == ChatOf(data, c)
        prefs == IF Get(chat, "prefs").t = "obj" THEN Get(chat, "prefs") ELSE Obj(<<>>)
    IN SetChat(data, c, Put(Put(chat, "prefs", Put(prefs, key, value)), "updated_at_ms", NowMs))

\* a call that loads, changes the document and saves
Write(op, l, data, w) ==
    /\ save(l.file, data, w)
    /\ backups' = l.backups
    /\ out' = StoreOut(op, w, None, l)
    /\ UNCHANGED <<clock, bg_next_id, qvars_but_bg_out, dvars, bvars, hvars>>

\* lines 91-108, for a chat of C whose number of messages is in L; W is
\* what may happen to the write of the temporary file
append_in(C, L, W) ==
    \E l \in {load} :
    \E c \in C, role \in Roles, text \in Texts, w \in W :
        /\ Len(MessagesOf(ChatOf(l.data, c)).items) \in L
        /\ Write("append", l, Appended(l.data, c, role, text), w)

append == append_in(ChatIds, 0..(MaxMsgs - 1), Writes)

\* lines 70-89, for a chat of C
set_pref_in(C, W) ==
    \E l \in {load} :
    \E c \in C, key \in PrefKeys, value \in PrefValues, w \in W :
        Write("set_pref", l, WithPref(l.data, c, key, value), w)

set_pref == set_pref_in(ChatIds, Writes)

\* lines 51-60, for a chat of C: the chat's entry is replaced by a new one
reset_chat_in(C, W) ==
    \E l \in {load} :
    \E c \in C, w \in W :
        /\ save(l.file, SetChat(l.data, c, NewChat), w)
        /\ backups' = l.backups
        /\ out' = [op |-> "reset_chat", c |-> c, raised |-> w # "ok",
                   renamed |-> l.renamed, had |-> state_file.saved]
        /\ UNCHANGED <<clock, bg_next_id, qvars_but_bg_out, dvars, bvars, hvars>>

\* lines 46-49, for a user of U
set_claimed_user_id_in(U, W) ==
    \E l \in {load} :
    \E u \in U, w \in W :
        Write("set_claimed_user_id", l, Put(l.data, "claimed_user_id", IntVal(u)), w)

set_claimed_user_id == set_claimed_user_id_in(UserIds, Writes)

\* v or d
Or(v, d) == IF Falsy(v) THEN d ELSE v

\* ChatMessage(role=str(m.get("role") or ""), ...)
ChatMessage(m) ==
    [role |-> Or(Get(m, "role"), Str("")).s, text |-> Or(Get(m, "text"), Str("")).s,
     ts_ms |-> Or(Get(m, "ts_ms"), IntVal(0)).n]

\* lines 110-127: the messages get_messages returns
Messages(data, c, max_turns) ==
    LET chat == Or(Get(Or(Get(data, "chats"), Obj(<<>>)), ToStr(c)), Obj(<<>>))
        raw == Or(Get(chat, "messages"), List(<<>>)).items
        dicts == SelectSeq(raw, LAMBDA m : m.t = "obj")
        msgs == [i \in DOMAIN dicts |-> ChatMessage(dicts[i])]
        keep == (IF max_turns > 0 THEN max_turns ELSE 0) * 2
    IN IF keep # 0 /\ Len(msgs) > keep
          THEN SubSeq(msgs, Len(msgs) - keep + 1, Len(msgs))
          ELSE msgs

\* lines 41-44: what get_claimed_user_id returns
ClaimedUserId(data) ==
    LET v == Get(data, "claimed_user_id") IN IF v.t = "int" THEN v ELSE None

\* a call that only loads
Read(op, l, ret) ==
    /\ state_file' = l.file
    /\ backups' = l.backups
    /\ out' = StoreOut(op, "read", ret, l)
    /\ UNCHANGED <<tmp_file, clock, bg_next_id, qvars_but_bg_out, dvars, bvars, hvars>>

\* lines 110-127, for a chat of C and a turn bound of T
get_messages_of(C, T) ==
    \E l \in {load} :
    \E c \in C, max_turns \in T :
        /\ state_file' = l.file
        /\ backups' = l.backups
        /\ out' = [op |-> "get_messages", raised |-> FALSE,
                   ret |-> Messages(l.data, c, max_turns),
                   renamed |-> l.renamed, had |-> state_file.saved,
                   c |-> c, max_turns |-> max_turns]
        /\ UNCHANGED <<tmp_file, clock, bg_next_id, qvars_but_bg_out, dvars, bvars, hvars>>

get_messages_in(C) == get_messages_of(C, MaxTurns)

get_messages == get_messages_in(ChatIds)

\* lines 41-44
get_claimed_user_id ==
    \E l \in {load} : Read("get_claimed_user_id", l, ClaimedUserId(l.data))

\* save(load()) with nothing between
save_load ==
    \E l \in {load}, w \in Writes : Write("save_load", l, l.data, w)

\* time passes
tick ==
    /\ clock < MaxClock
    /\ clock' = clock + 1
    /\ out' = NoOut
    /\ UNCHANGED <<state_file, tmp_file, backups, bg_next_id, qvars_but_bg_out, dvars, bvars, hvars>>

\* texts that json.loads rejects: the empty file, and a document that was cut
CorruptTexts == {<<>>, SubSeq(dumps(Fresh), 1, 5)}

\* the process starts on a directory with no file, or with a file that
\* cannot be parsed
InitStore ==
    /\ QueueInit /\ DetachIdle /\ BgIdle /\ HandlersIdle
    /\ state_file \in {Absent} \cup {File(x, FALSE) : x \in CorruptTexts}
    /\ tmp_file = Absent
    /\ backups = {}
    /\ clock = 0

NextStore ==
    \/ append
    \/ set_pref
    \/ set_claimed_user_id
    \/ get_messages
    \/ get_claimed_user_id
    \/ save_load
    \/ tick

SpecStore == InitStore /\ [][NextStore]_vars

WriteOps == {"append", "set_pref", "set_claimed_user_id", "save_load"}

ReadOps == {"get_messages", "get_claimed_user_id"}

\* the target holds a text that json.loads accepts
Loadable(f) == f.exists /\ loads(f.text).ok

C18_Step ==
    /\ (out'.op \in WriteOps /\ out'.raised /\ state_file.saved) =>
          (state_file' = state_file /\ Loadable(state_file'))
    /\ state_file'.saved => Loadable(state_file')
    /\ (out'.op \in WriteOps \cup ReadOps /\ out'.renamed) => ~state_file.saved

\* C18: a save that fails before the rename leaves the target as it was,
\* the document saved before, which loads; the target never holds a text
\* of save that does not load, and no load finds one.
C18_FailedSaveKeepsDocument == [][C18_Step]_vars

\* a save has failed with half of the text in the tmp file, and the target
\* holds the document saved before, with the chat in it
C18_Witness ==
    /\ out.op = "append" /\ out.raised /\ out.had
    /\ tmp_file.exists /\ ~loads(tmp_file.text).ok
    /\ state_file.saved /\ Loadable(state_file)
    /\ Has(Get(load.data, "chats"), "7")

\* C19: save(load()) on a file that save has written, with nothing between,
\* leaves the file as it was, token for token.
C19_SaveLoadIsNoOp ==
    [][(out'.op = "save_load" /\ ~out'.raised /\ state_file.saved) =>
          (state_file' = state_file /\ tmp_file' = Absent)]_vars

\* save(load()) has run on a saved document that holds a message, a
\* preference and a claimed user
C19_Witness ==
    /\ out.op = "save_load" /\ ~out.raised /\ out.had
    /\ state_file.saved
    /\ Len(Messages(load.data, 7, 0)) = 1
    /\ Has(Get(ChatOf(load.data, 7), "prefs"), "codex_yolo")
    /\ ClaimedUserId(load.data) = IntVal(5)

\* the file that save writes for this document
SavedFile(data) == File(dumps(data) \o <<Tok("nl")>>, TRUE)

C20_Step ==
    (state_file.exists /\ ~loads(state_file.text).ok /\ out'.op \in WriteOps \cup ReadOps) =>
       /\ out'.renamed
       /\ backups' = {b \in backups : b.ts # clock}
                        \cup {[ts |-> clock, text |-> state_file.text]}
       /\ out'.raised => (out'.op \in WriteOps /\ state_file' = Absent)
       /\ out'.op \in ReadOps => state_file' = Absent
       /\ out'.op = "get_messages" => out'.ret = <<>>
       /\ out'.op = "get_claimed_user_id" => out'.ret = None
       /\ (out'.op = "append" /\ ~out'.raised) =>
             \E c \in ChatIds, role \in Roles, text \in Texts :
                 state_file' = SavedFile(Appended(Fresh, c, role, text))
       /\ (out'.op = "set_pref" /\ ~out'.raised) =>
             \E c \in ChatIds, key \in PrefKeys, value \in PrefValues :
                 state_file' = SavedFile(WithPref(Fresh, c, key, value))
       /\ (out'.op = "set_claimed_user_id" /\ ~out'.raised) =>
             \E u \in UserIds : state_file' = SavedFile(Put(Fresh, "claimed_user_id", IntVal(u)))
       /\ (out'.op = "save_load" /\ ~out'.raised) => state_file' = SavedFile(Fresh)

\* C20: a store operation that finds a file json.loads rejects moves it to
\* the backup of the current second, works on the fresh document and ends
\* without an exception of load: the reads return no message and no
\* claimed user, the writes save the fresh document with their change.
C20_CorruptFileSetAside == [][C20_Step]_vars

\* append has found a corrupt file, set it aside and saved the fresh
\* document with its message
C20_Witness ==
    /\ out.op = "append" /\ out.renamed /\ ~out.raised
    /\ \E b \in backups : b.text \in CorruptTexts
    /\ state_file.saved
    /\ Len(Messages(load.data, 7, 0)) = 1
    /\ ClaimedUserId(load.data) = None

\* =====================================================================
\* The worker of one session together with the background job its reply
\* started (queue.py line 345, bg_jobs.py)
\* =====================================================================

\* the ids of the two text jobs the session gets
FirstTwoIds == {1, 2}

enqueue_one_of_two(s) == next_id[s] \in FirstTwoIds /\ enqueue_text(s)

NextQueueBg ==
    \/ \E s \in Sessions :
          \/ enqueue_one_of_two(s)
          \/ drop_pending(s)
          \/ cancel_and_clear(s)
          \/ cancel_await(s)
          \/ cancel_finish(s)
          \/ worker_start(s)
          \/ worker_working(s)
          \/ heartbeat_loop(s)
          \/ run_job_agent(s)
          \/ run_job_except_msg(s)
          \/ run_job_hbwait(s)
          \/ run_job_hbdel(s)
          \/ run_job_send_final(s)
          \/ worker_canceled(s)
          \/ worker_report(s)
    \/ bg_run_start
    \/ bg_run_spawned
    \/ process_exit
    \/ bg_run_waited
    \/ bg_run_joined
    \/ bg_run_delete
    \/ bg_run_notify
    \/ status_loop_start
    \/ status_loop_sent
    \/ status_loop_wake
    \/ status_loop_edited

SpecQueueBg == Init /\ [][NextQueueBg]_vars

\* C26: the step of the worker that starts a background job goes on to the
\* final send with the process not yet spawned; while the process runs, the
\* worker that started it can send its launch message and take the next
\* pending job; a drop_pending and every step of a cancel_and_clear leave
\* the background manager, the process and the status task as they were;
\* and a step of the worker changes them only by registering a new job.
C26_BgNeverBlocksSession ==
    [][\A s \in Sessions :
          /\ (~bg_job.exists /\ bg_job'.exists) =>
                /\ run_pc' = "start" /\ process' = process /\ process.state = "none"
                /\ ~NeedsWorker(s)' /\ tasks'[s][worker_task[s]].pc = "send_final"
          /\ (process.state = "running" /\ ~NeedsWorker(s)
                /\ tasks[s][worker_task[s]].pc \in {"send_final", "start"}) =>
                (ENABLED run_job_send_final(s) \/ ENABLED worker_start(s))
          /\ ((out'.op = "drop_pending" /\ out'.s = s) \/ cc'[s] # cc[s]) =>
                UNCHANGED bvars
          /\ tasks'[s] # tasks[s] =>
                \/ UNCHANGED bvars
                \/ /\ ~bg_job.exists /\ bg_job'.exists
                   /\ UNCHANGED <<process, status_task, bg_chat, timers, cancel_calls>>]_vars

\* the background process started by job 1 is running while the worker
\* has taken job 2 and awaits its agent
C26_Witness ==
    \E s \in Sessions :
        /\ process.state = "running"
        /\ begun[s] = <<1, 2>>
        /\ current[s] = Job(2, "text")
        /\ ~NeedsWorker(s) /\ tasks[s][worker_task[s]].pc = "agent"

\* =====================================================================
\* The message lists of two chats under append, reset_chat, set_pref,
\* get_messages and set_claimed_user_id (state.py lines 46-127)
\* =====================================================================

HistChats == {7, 8}

\* append is called on a list of no message or of one
HistLens == {0, 1}

\* the write succeeds, or fails before the temporary file exists
HistWrites == {"ok", "none"}

NextHistory ==
    \/ append_in(HistChats, HistLens, HistWrites)
    \/ reset_chat_in(HistChats, HistWrites)
    \/ set_pref_in(HistChats, HistWrites)
    \/ get_messages_in(HistChats)
    \/ set_claimed_user_id_in(UserIds, HistWrites)

SpecHistory == Init /\ [][NextHistory]_vars

\* lines 26-34: the document a load of the target f returns
DataIn(f) ==
    IF ~f.exists THEN Fresh
    ELSE LET r == loads(f.text) IN IF r.ok THEN r.val ELSE Fresh

\* the message list the document data holds for chat c
StoredMessages(data, c) == MessagesOf(ChatOf(data, c)).items

\* C21: in every step the stored message list of a chat stays as it is,
\* or gets one message at its end (by append), or becomes empty (by a
\* reset_chat of that chat); a step of get_messages, set_pref or
\* set_claimed_user_id leaves every list as it is, and so does a
\* reset_chat of another chat.
C21_HistoryAppendOnly ==
    [][\/ state_file' = state_file
       \/ \E d \in {DataIn(state_file)} : \E e \in {DataIn(state_file')} :
          \A c \in HistChats :
          \E m \in {StoredMessages(d, c)} : \E n \in {StoredMessages(e, c)} :
          /\ \/ n = m
             \/ /\ out'.op = "append"
                /\ Len(n) = Len(m) + 1
                /\ SubSeq(n, 1, Len(m)) = m
             \/ /\ out'.op = "reset_chat" /\ out'.c = c
                /\ n = <<>>
          /\ out'.op \in {"get_messages", "set_pref", "set_claimed_user_id"} => n = m]_vars

\* chat 7 holds two messages, the second appended behind the first, and
\* chat 8 has just been reset from a non-empty list
C21_Witness ==
    /\ out.op = "reset_chat" /\ out.c = 8 /\ ~out.raised /\ out.had
    /\ \E d \in {DataIn(state_file)} :
          /\ Len(StoredMessages(d, 7)) = 2
          /\ StoredMessages(d, 7)[1] # StoredMessages(d, 7)[2]
          /\ StoredMessages(d, 8) = <<>>
          /\ Has(Get(ChatOf(d, 7), "prefs"), "codex_yolo")

\* =====================================================================
\* handlers.cmd_claim, one handler task for each user's /claim command
\* (telegram_bot.py line 98: updates are handled concurrently), over the
\* file of StateStore
\* =====================================================================

\* what a step of cmd_claim did: result is the branch it took; renamed is
\* "the load of line 138 moved a corrupt file aside" and rename_lock the
\* owner of the state lock at that load; write_lock is the owner of the
\* lock at the save of line 156 (0: no save)
ClaimRecord(u, result, renamed, rename_lock, write_lock) ==
    [op |-> "cmd_claim", u |-> u, result |-> result, renamed |-> renamed,
     rename_lock |-> rename_lock, write_lock |-> write_lock]

\* cmd_claim with a suspension between the read of line 138 and the write
\* of line 156
cmd_claim_suspending(u) ==
    \/ /\ claim_pc[u] = "idle"
       /\ \E l \in {load} : \E code_ok \in BOOLEAN :
             /\ state_file' = l.file
             /\ backups' = l.backups
             /\ claim_pc' = [claim_pc EXCEPT ![u] =
                    IF ClaimedUserId(l.data) # None THEN "already"
                    ELSE IF ~code_ok THEN "refused" ELSE "checked"]
             /\ out' = NoOut
       /\ UNCHANGED <<tmp_file, clock, state_lock, ovars, bg_next_id, qvars_but_bg_out, dvars, bvars>>
    \/ /\ claim_pc[u] = "checked"
       /\ state_lock = 0
       /\ \E l \in {load} : \E w \in Writes :
             /\ save(l.file, Put(l.data, "claimed_user_id", IntVal(u)), w)
             /\ backups' = l.backups
             /\ claim_pc' = [claim_pc EXCEPT ![u] = IF w = "ok" THEN "claimed" ELSE "idle"]
             /\ out' = ClaimRecord(u, IF w = "ok" THEN "claimed" ELSE "raised", l.renamed, u, u)
       /\ UNCHANGED <<clock, state_lock, ovars, bg_next_id, qvars_but_bg_out, dvars, bvars>>

\* lines 125-157 up to the first suspension.  Claiming is enabled (lines
\* 131-136 fall through).  get_claimed_user_id at line 138 loads outside
\* the lock; with an identity claimed, or a missing or wrong code (lines
\* 139-153), a reply is sent; otherwise the free state lock is taken
\* without suspending, set_claimed_user_id loads again and saves, and the
\* lock is released; a save that raises ends the handler
cmd_claim(u) ==
    /\ claim_pc[u] = "idle"
    /\ \E l \in {load} : \E code_ok \in BOOLEAN, w \in Writes :
          IF ClaimedUserId(l.data) # None \/ ~code_ok
             THEN /\ state_file' = l.file
                  /\ backups' = l.backups
                  /\ claim_pc' = [claim_pc EXCEPT ![u] =
                         IF ClaimedUserId(l.data) # None THEN "already" ELSE "refused"]
                  /\ out' = ClaimRecord(u, claim_pc'[u], l.renamed, state_lock, 0)
                  /\ UNCHANGED tmp_file
             ELSE /\ state_lock = 0
                  /\ save(l.file, Put(l.data, "claimed_user_id", IntVal(u)), w)
                  /\ backups' = l.backups
                  /\ claim_pc' = [claim_pc EXCEPT ![u] = IF w = "ok" THEN "claimed" ELSE "idle"]
                  /\ out' = ClaimRecord(u, IF w = "ok" THEN "claimed" ELSE "raised",
                                        l.renamed, state_lock, u)
    /\ UNCHANGED <<clock, state_lock, ovars, bg_next_id, qvars_but_bg_out, dvars, bvars>>

\* the send_update that ends the handler (lines 140, 144, 148, 157); the
\* user may send /claim again
claim_reply(u) ==
    /\ claim_pc[u] \in {"already", "refused", "claimed"}
    /\ claim_pc' = [claim_pc EXCEPT ![u] = "idle"]
    /\ out' = NoOut
    /\ UNCHANGED <<state_file, tmp_file, backups, clock, state_lock, ovars, bg_next_id,
                   qvars_but_bg_out, dvars, bvars>>

NextClaim == \E u \in ClaimUsers : cmd_claim(u) \/ claim_reply(u)

SpecClaim == InitStore /\ [][NextClaim]_vars

\* C22: once the file holds a claimed identity no step changes it, and a
\* /claim that answers "Claimed" found no identity and wrote its own user.
C22_ClaimedOnce ==
    [][\E a \in {ClaimedUserId(DataIn(state_file))} :
       \E b \in {ClaimedUserId(DataIn(state_file'))} :
          /\ a # None => b = a
          /\ \A u \in ClaimUsers :
                (out'.op = "cmd_claim" /\ out'.u = u /\ out'.result = "claimed") =>
                    (a = None /\ b = IntVal(u))]_vars

\* user 5's /claim has written the identity and is sending its answer
\* while user 6's /claim, handled at the same time, is being turned down
C22_Witness ==
    /\ claim_pc[5] = "claimed"
    /\ claim_pc[6] = "already"
    /\ ClaimedUserId(DataIn(state_file)) = IntVal(5)

\* C23: a load that moves a corrupt file aside, like every save, is made
\* by the task that owns the state lock.
C23_WritesUnderLock ==
    out.op = "cmd_claim" =>
        /\ out.renamed => out.rename_lock = out.u
        /\ out.result \in {"claimed", "raised"} => out.write_lock = out.u

\* ---------------------------------------------------------------------
\* The status display of one heartbeat attachment
\* ---------------------------------------------------------------------

\* C31: while a job's heartbeat is attached, the chat never holds two
\* status displays of that attachment: a display whose id the reporter
\* still has (hb_message_id) together with one it created earlier and no
\* longer knows (hb_left).
C31_OneDisplay ==
    \A s \in Sessions : \A i \in DOMAIN tasks[s] :
        ~(tasks[s][i].hb_message_id /\ tasks[s][i].hb_left)

\* ---------------------------------------------------------------------
\* The monitoring of a background job and its status display
\* ---------------------------------------------------------------------

\* the event loop runs every task of the manager that can go on: a transport
\* call returns or raises, a sleep ends, an awaited task that is done is
\* joined.  The child itself is under no obligation to exit.
FairSpecRun ==
    /\ SpecBg
    /\ WF_vars(bg_run_start) /\ WF_vars(bg_run_spawned) /\ WF_vars(bg_run_waited)
    /\ WF_vars(bg_run_joined) /\ WF_vars(bg_run_delete) /\ WF_vars(bg_run_notify)
    /\ WF_vars(status_loop_start) /\ WF_vars(status_loop_sent)
    /\ WF_vars(status_loop_wake) /\ WF_vars(status_loop_edited)

\* the task of _run ends with an exception only where the child could not
\* be created or the completion notice could not be sent, and a delete of
\* the display, failed or not, is followed by the notice
C32_Step ==
    /\ (run_pc' = "failed" /\ run_pc # "failed") => run_pc \in {"spawn", "notify"}
    /\ (run_pc = "delete" /\ run_pc' # "delete") => run_pc' = "notify"
    /\ (run_pc = "status_wait" /\ run_pc' # "status_wait") => run_pc' \in {"delete", "notify"}

\* C32: no failure of a send, edit or delete of the status display ends or
\* holds up the task of _run: the task fails only at the creation of the
\* child or at the send of the completion notice itself, and once the
\* process has exited the exit is recorded and the completion notice is
\* sent (posted, unless that send fails).
C32_DisplayFailuresSwallowed ==
    /\ [][C32_Step]_vars
    /\ (process.state = "exited" ~>
           (bg_job.ended /\ (bg_chat.notices = 1 \/ run_pc = "failed")))

\* the delete of the display failed and the completion notice was posted
C32_Witness ==
    /\ bg_chat.delete_failed
    /\ bg_job.ended
    /\ run_pc = "done"
    /\ bg_chat.notices = 1

\* ---------------------------------------------------------------------
\* BgJobManager.start called from several sessions (bg_jobs.py lines
\* 118-143).  bg_started is here the list of the jobs in _jobs, in the
\* order of their allocation.
\* ---------------------------------------------------------------------

\* the start calls the sessions make
MaxStarts == 10

DigitChars == <<"0", "1", "2", "3", "4", "5", "6", "7", "8", "9">>

RECURSIVE Decimal(_)
\* str(n) of a natural number, as its characters
Decimal(n) ==
    IF n < 10 THEN <<DigitChars[n + 1]>>
    ELSE Decimal(n \div 10) \o <<DigitChars[(n % 10) + 1]>>

\* line 129: self._dir / f"{job_id}.log", as the characters of the file name
LogPath(job_id) == Decimal(job_id) \o <<".", "l", "o", "g">>

\* a start that does not advance the counter
start_same_id(chat_id) ==
    /\ Len(bg_started) < MaxStarts
    /\ LET job == [job_id |-> bg_next_id, chat_id |-> chat_id, log_path |-> LogPath(bg_next_id)]
       IN /\ bg_started' = Append(bg_started, job)
          /\ out' = [op |-> "start", job |-> job]
    /\ UNCHANGED <<bg_next_id, reply_text, detach_pc, appended, sent, bvars, svars, hvars,
                   qvars_but_bg_out>>

\* lines 126-143: under self._lock, which no holder keeps across an await
\* (an uncontended "async with" does not suspend): take the id, advance the
\* counter, build the job with its log path and register it; then create
\* the task of _run and return the job
start(chat_id) ==
    /\ Len(bg_started) < MaxStarts
    /\ LET job == [job_id |-> bg_next_id, chat_id |-> chat_id, log_path |-> LogPath(bg_next_id)]
       IN /\ bg_next_id' = bg_next_id + 1
          /\ bg_started' = Append(bg_started, job)
          /\ out' = [op |-> "start", job |-> job]
    /\ UNCHANGED <<reply_text, detach_pc, appended, sent, bvars, svars, hvars, qvars_but_bg_out>>

\* two sessions start background jobs and enqueue jobs of their own
NextStart ==
    \E s \in PairSessions :
        \/ start(s)
        \/ enqueue_text(s)

SpecStart == InitPair /\ [][NextStart]_vars

\* the ids and log paths of the started jobs
C33_Allocated ==
    /\ \A i, j \in DOMAIN bg_started :
           i < j => /\ bg_started[i].job_id < bg_started[j].job_id
                    /\ bg_started[i].log_path # bg_started[j].log_path
    /\ \A i \in DOMAIN bg_started : bg_started[i].job_id < bg_next_id

\* a step changes the manager's counter or a session's counter, never both
C33_Step ==
    /\ bg_next_id' # bg_next_id => next_id' = next_id
    /\ next_id' # next_id => (bg_next_id' = bg_next_id /\ bg_started' = bg_started)
    /\ out'.op = "start" => out'.job.job_id = Len(bg_started) + 1

\* C33: over any order of start calls from two sessions, mixed with their
\* enqueues, the started jobs have ids that increase strictly in the order
\* of allocation (so they are distinct), their log paths are distinct, the
\* counter is above every id given out, and no step moves both the
\* manager's counter and a session's job-id counter: the k-th start gets
\* id k whatever the sessions' counters are.
C33_BgIdsProcessWide ==
    /\ []C33_Allocated
    /\ [][C33_Step]_vars

\* both sessions started jobs, the last one with a two-digit id, while
\* session 1 had enqueued jobs of its own
C33_Witness ==
    /\ Len(bg_started) = 10
    /\ bg_started[10].job_id = 10
    /\ bg_started[10].log_path = <<"1", "0", ".", "l", "o", "g">>
    /\ \E i, j \in DOMAIN bg_started : bg_started[i].chat_id # bg_started[j].chat_id
    /\ next_id[1] = 3

\* =====================================================================
\* QueueManager._run_job.on_oauth_url (queue.py lines 272-291): the
\* callback the agent call of a session awaits for every authorization URL
\* it detects (agent.py line 155), one session's callbacks one after the
\* other, those of different sessions side by side, over the file of
\* StateStore
\* =====================================================================

\* the URLs the agents report
Urls == {"u1", "u2"}

\* how an await of the callback ends: it returns, it raises, or the task
\* that runs the callback is cancelled in it
AwaitOutcomes == {"ok", "fail", "cancel"}

OauthAt(c, pc) == [oauth_pc EXCEPT ![c].pc = pc]

\* the awaits made while the lock is held
InSideFlow == {"notify", "flow", "notify_allow"}

\* lines 273-283 once _oauth_lock is free: the lock is taken, the free
\* state lock is taken without suspending, set_pref loads the document,
\* sets pending_oauth_url and saves, the state lock is released and the
\* send_message of line 278 is awaited; a save that raises leaves both
\* locks and ends the callback
RecordUrl(c, url) ==
    \E l \in {load} : \E w \in HistWrites :
        /\ state_lock = 0
        /\ save(l.file, WithPref(l.data, c, "pending_oauth_url", Str(url)), w)
        /\ backups' = l.backups
        /\ oauth_pc' = [oauth_pc EXCEPT ![c] =
               [pc |-> IF w = "ok" THEN "notify" ELSE "raised", url |-> url]]
        /\ oauth_lock' = IF w = "ok" THEN c ELSE 0
        /\ out' = [op |-> "set_pref", c |-> c, url |-> url, raised |-> w # "ok",
                   owner |-> oauth_lock]

\* line 273, "async with self._oauth_lock": the callback is called with a
\* URL of U; it goes on at once if the lock is free and waits for it
\* otherwise
on_oauth_url_of(c, U) ==
    /\ oauth_pc[c].pc \in {"idle", "done", "raised", "cancelled"}
    /\ \E url \in U :
          IF oauth_lock = 0
             THEN RecordUrl(c, url)
             ELSE /\ oauth_pc' = [oauth_pc EXCEPT ![c] = [pc |-> "lock_wait", url |-> url]]
                  /\ out' = NoOut
                  /\ UNCHANGED <<oauth_lock, state_file, tmp_file, backups>>
    /\ UNCHANGED <<clock, claim_pc, state_lock, bg_next_id, qvars_but_bg_out, dvars, bvars>>

on_oauth_url(c) == on_oauth_url_of(c, Urls)

\* the wait for the lock ends: the lock was released, or the waiting task
\* was cancelled
oauth_lock_wait(c) ==
    /\ oauth_pc[c].pc = "lock_wait"
    /\ \/ oauth_lock = 0 /\ RecordUrl(c, oauth_pc[c].url)
       \/ /\ oauth_pc' = OauthAt(c, "cancelled")
          /\ out' = NoOut
          /\ UNCHANGED <<oauth_lock, state_file, tmp_file, backups>>
    /\ UNCHANGED <<clock, claim_pc, state_lock, bg_next_id, qvars_but_bg_out, dvars, bvars>>

\* a callback that gives the lock back before the automation
oauth_notified_unlocked(c) ==
    /\ oauth_pc[c].pc = "notify"
    /\ \E o \in AwaitOutcomes :
          /\ oauth_pc' = OauthAt(c, CASE o = "ok" -> "flow"
                                      [] o = "fail" -> "raised"
                                      [] OTHER -> "cancelled")
          /\ oauth_lock' = 0
    /\ out' = NoOut
    /\ UNCHANGED <<svars, claim_pc, state_lock, bg_next_id, qvars_but_bg_out, dvars, bvars>>

\* lines 278-284: the send_message ends; delivered, the automation of
\* oauth_peekaboo_flow is started under the lock; an exception or a
\* cancellation leaves the "async with" and releases the lock
oauth_notified(c) ==
    /\ oauth_pc[c].pc = "notify"
    /\ \E o \in AwaitOutcomes :
          /\ oauth_pc' = OauthAt(c, CASE o = "ok" -> "flow"
                                      [] o = "fail" -> "raised"
                                      [] OTHER -> "cancelled")
          /\ oauth_lock' = IF o = "ok" THEN oauth_lock ELSE 0
    /\ out' = NoOut
    /\ UNCHANGED <<svars, claim_pc, state_lock, bg_next_id, qvars_but_bg_out, dvars, bvars>>

\* lines 284-291: oauth_peekaboo_flow ends; with settings.oauth_auto_allow
\* the callback returns and releases the lock, without it the message of
\* line 286 is sent first
oauth_flow(c) ==
    /\ oauth_pc[c].pc = "flow"
    /\ \E o \in AwaitOutcomes, oauth_auto_allow \in BOOLEAN :
          /\ oauth_pc' = OauthAt(c, CASE o = "ok" /\ oauth_auto_allow -> "done"
                                      [] o = "ok" /\ ~oauth_auto_allow -> "notify_allow"
                                      [] o = "fail" -> "raised"
                                      [] OTHER -> "cancelled")
          /\ oauth_lock' = IF o = "ok" /\ ~oauth_auto_allow THEN oauth_lock ELSE 0
    /\ out' = NoOut
    /\ UNCHANGED <<svars, claim_pc, state_lock, bg_next_id, qvars_but_bg_out, dvars, bvars>>

\* lines 286-291: the second send_message ends and the lock is released
oauth_notified_allow(c) ==
    /\ oauth_pc[c].pc = "notify_allow"
    /\ \E o \in AwaitOutcomes :
          oauth_pc' = OauthAt(c, CASE o = "ok" -> "done"
                                   [] o = "fail" -> "raised"
                                   [] OTHER -> "cancelled")
    /\ oauth_lock' = 0
    /\ out' = NoOut
    /\ UNCHANGED <<svars, claim_pc, state_lock, bg_next_id, qvars_but_bg_out, dvars, bvars>>

NextOauth ==
    \/ \E c \in OauthChats :
          \/ on_oauth_url(c)
          \/ oauth_lock_wait(c)
          \/ oauth_notified(c)
          \/ oauth_flow(c)
          \/ oauth_notified_allow(c)
    \/ reset_chat_in(OauthChats, HistWrites)

\* the callbacks of two sessions, and the /reset commands that empty a
\* session's record in between
SpecOauth == Init /\ [][NextOauth]_vars

\* session c's pending_oauth_url in the document data
PendingUrl(data, c) == Get(Get(ChatOf(data, c), "prefs"), "pending_oauth_url")

\* at most one callback is inside the authorization lock, and it owns it
C34_Exclusive ==
    /\ Cardinality({c \in OauthChats : oauth_pc[c].pc \in InSideFlow}) <= 1
    /\ \A c \in OauthChats : oauth_pc[c].pc \in InSideFlow => oauth_lock = c

\* a callback enters the side flow by taking the free lock and writing its
\* URL into its session's preferences, and starts the automation only from
\* there
C34_Step ==
    \A c \in OauthChats :
        /\ (oauth_pc'[c].pc = "notify" /\ oauth_pc[c].pc # "notify") =>
              /\ oauth_lock = 0 /\ oauth_lock' = c
              /\ PendingUrl(DataIn(state_file'), c) = Str(oauth_pc'[c].url)
        /\ (oauth_pc'[c].pc = "flow" /\ oauth_pc[c].pc # "flow") =>
              /\ oauth_pc[c].pc = "notify"
              /\ oauth_pc'[c].url = oauth_pc[c].url
              /\ oauth_lock = c /\ oauth_lock' = c

\* C34: at most one callback is between taking the authorization lock and
\* leaving it, whatever the sessions that report URLs at the same time,
\* and it is the owner of the lock; a callback reaches its automation only
\* after the step in which it took the free lock and saved its URL as its
\* own session's pending_oauth_url.
C34_OneSideFlow ==
    /\ []C34_Exclusive
    /\ [][C34_Step]_vars

\* session 7's automation runs for "u1" while session 8's callback, called
\* with "u2", waits for the lock, and the file holds only session 7's URL
C34_Witness ==
    /\ oauth_pc[7] = [pc |-> "flow", url |-> "u1"]
    /\ oauth_pc[8] = [pc |-> "lock_wait", url |-> "u2"]
    /\ PendingUrl(DataIn(state_file), 7) = Str("u1")
    /\ PendingUrl(DataIn(state_file), 8) # Str("u2")

\* ---------------------------------------------------------------------
\* StateStore.get_messages over histories of up to four messages
\* ---------------------------------------------------------------------

\* the lengths of the lists append is called on
ViewLens == {0, 1, 2, 3}

\* the turn bounds get_messages is called with
ViewTurns == {0, 1, 2}

NextView ==
    \/ append_in(ChatIds, ViewLens, {"ok"})
    \/ get_messages_of(ChatIds, ViewTurns)

SpecView == Init /\ [][NextView]_vars

Min(a, b) == IF a < b THEN a ELSE b

\* C35: get_messages(c, N) returns the newest messages of the stored list
\* of c, in the stored order, as many as there are but at most 2 * N, and
\* leaves the stored list as it is.
C35_BoundedView ==
    [][out'.op = "get_messages" =>
          \E stored \in {StoredMessages(DataIn(state_file), out'.c)} :
          \E n \in {Len(out'.ret)} :
             /\ n = Min(Len(stored), 2 * out'.max_turns)
             /\ \A i \in 1..n : out'.ret[i] = ChatMessage(stored[Len(stored) - n + i])
             /\ StoredMessages(DataIn(state_file'), out'.c) = stored]_vars

\* ---------------------------------------------------------------------
\* cancel of a background job that active_for_chat lists
\* ---------------------------------------------------------------------

\* lines 145-154: active_for_chat lists the registered jobs whose ended_ms
\* is None
active_for_chat == IF bg_job.exists /\ ~bg_job.ended THEN {1} ELSE {}

\* C36: a cancel of a job that active_for_chat lists has sent SIGTERM to
\* its process and returned True, and a cancel that returned False was
\* called for an unknown job or for one that has ended.
C36_CancelWhileActive ==
    out.op = "bg_cancel" =>
        /\ out.job_id \in active_for_chat => (out.ret /\ process.term)
        /\ ~out.ret => (~out.known \/ bg_job.ended)

\* ---------------------------------------------------------------------
\* The return of cancel_and_clear to the command handler
\* ---------------------------------------------------------------------

\* C37: a cancel_and_clear whose wait for the worker is over has returned
\* to its caller; it never leaves by an exception, whatever the worker was
\* doing when it was cancelled.
C37_CancelReturns ==
    \A s \in Sessions : cc[s].pc # "raised"

\* =====================================================================
\* The session lock, the state lock and the authorization lock together:
\* one session's worker with its first text job and its command handlers,
\* the callbacks of that session's agent call (chat 7) and of another
\* session's (chat 8)
\* =====================================================================

\* the chat of the session whose queue is followed
AgentChat == 7

\* the awaits of a callback that has been called and has not ended
InCallback == InSideFlow \cup {"lock_wait"}

\* agent.py lines 128-155: the agent call of the followed session reports a
\* URL only while it runs; another session's agent call may do so any time
agent_reports_url(c) ==
    /\ c = AgentChat => \E s \in Sessions : \E i \in DOMAIN tasks[s] : tasks[s][i].pc = "agent"
    /\ on_oauth_url_of(c, {"u1"})

\* agent.py lines 181-200: ask returns or raises only when its output pump,
\* which awaits the callback, is over ("finally: await pump_out")
agent_ask_ends(s) ==
    /\ oauth_pc[AgentChat].pc \notin InCallback
    /\ run_job_agent(s)

NextLocks ==
    \/ \E s \in Sessions :
          \/ enqueue_first(s)
          \/ snapshot(s)
          \/ drop_pending(s)
          \/ cancel_and_clear(s)
          \/ cancel_await(s)
          \/ cancel_finish(s)
          \/ worker_start(s)
          \/ worker_working(s)
          \/ heartbeat_loop(s)
          \/ agent_ask_ends(s)
          \/ run_job_except_msg(s)
          \/ run_job_hbwait(s)
          \/ run_job_hbdel(s)
          \/ run_job_send_final(s)
          \/ worker_canceled(s)
          \/ worker_report(s)
    \/ \E c \in OauthChats :
          \/ agent_reports_url(c)
          \/ oauth_lock_wait(c)
          \/ oauth_notified(c)
          \/ oauth_flow(c)
          \/ oauth_notified_allow(c)

SpecLocks == Init /\ [][NextLocks]_vars

\* between two steps, i.e. at every suspension point, the state lock is
\* free and the authorization lock is held by a callback inside its side
\* flow or by nobody
C38_LocksFree ==
    /\ state_lock = 0
    /\ oauth_lock \in OauthChats \cup {0}
    /\ \A c \in OauthChats : oauth_lock = c <=> oauth_pc[c].pc \in InSideFlow

\* enqueue, snapshot, drop_pending and the first step of cancel_and_clear
\* can run at once, whatever the worker and the callbacks are doing
C38_NeverWait ==
    \A s \in Sessions :
        /\ assigned[s] = {} => ENABLED enqueue_first(s)
        /\ ENABLED snapshot(s)
        /\ ENABLED drop_pending(s)
        /\ cc[s].pc = "idle" => ENABLED cancel_and_clear(s)

\* the owner of the authorization lock waits for no lock: the await it is
\* in can end; and a callback that waits for the lock finds it free, with
\* the state lock it takes inside it, or held by another callback
C38_OwnerRuns ==
    \A c \in OauthChats :
        /\ oauth_lock = c =>
              ENABLED (oauth_notified(c) \/ oauth_flow(c) \/ oauth_notified_allow(c))
        /\ oauth_pc[c].pc = "lock_wait" =>
              \/ oauth_lock = 0 /\ state_lock = 0
              \/ oauth_lock \in OauthChats \ {c}

\* C38: at every suspension point of the workers, command handlers and
\* callbacks the session lock and the state lock are free (the operations
\* that take them can run at once) and only the authorization lock may be
\* held, by a callback that waits for no lock; the state lock is taken
\* inside the authorization lock by the step that takes that lock; so no
\* task waits for a lock whose owner waits for a lock, and enqueue and
\* snapshot run at once while a job is executing.
C38_NoLockWait ==
    /\ C38_LocksFree
    /\ C38_NeverWait
    /\ C38_OwnerRuns
    /\ (out.op = "set_pref" /\ ~out.raised) => (out.owner = 0 /\ oauth_lock = out.c)

\* the worker was cancelled while its agent call waits for the callback of
\* chat 7, which waits for the authorization lock that chat 8's automation
\* holds, and the handler that cancelled waits for the worker
C38_Witness ==
    \E s \in Sessions :
        /\ cc[s].pc = "await"
        /\ current[s] # NoJob
        /\ tasks[s][worker_task[s]].pc = "agent"
        /\ tasks[s][worker_task[s]].must_cancel
        /\ oauth_pc[7].pc = "lock_wait"
        /\ oauth_pc[8].pc = "flow"
        /\ oauth_lock = 8

\* C39: once the task of _run is over, because the process has exited or
\* because it could not be launched, the job has ended and active_for_chat
\* no longer lists it, its status task is stopped, and a supervisor that
\* came to its end has posted the completion notice.
C39_EveryJobEnds ==
    run_pc \in {"done", "failed"} =>
        /\ active_for_chat = {}
        /\ status_task.pc \in {"none", "done"}
        /\ run_pc = "done" => bg_chat.notices = 1

\* ---------------------------------------------------------------------
\* What the store's mutations leave alone
\* ---------------------------------------------------------------------

\* the entry of chat c in the document data, Missing when there is none
ChatRecord(data, c) == Get(Get(WithChats(data), "chats"), ToStr(c))

\* the chats whose entry differs between two documents
ChangedChats(a, b) == {c \in HistChats : ChatRecord(a, c) # ChatRecord(b, c)}

\* C40: a step of append, set_pref or reset_chat changes the entry of one
\* chat at most (reset_chat: the chat it was called for) and leaves the
\* claimed identity as it is; append leaves every chat's preferences and
\* set_pref every chat's messages as they are; set_claimed_user_id leaves
\* every chat's entry as it is.
C40_MutationsAreLocal ==
    [][\/ state_file' = state_file
       \/ \E a \in {DataIn(state_file)} : \E b \in {DataIn(state_file')} :
             /\ out'.op \in {"append", "set_pref", "reset_chat"} =>
                   /\ Cardinality(ChangedChats(a, b)) <= 1
                   /\ ClaimedUserId(b) = ClaimedUserId(a)
             /\ out'.op = "reset_chat" => ChangedChats(a, b) \subseteq {out'.c}
             /\ out'.op = "append" =>
                   \A c \in HistChats :
                       Get(ChatOf(b, c), "prefs") = Get(ChatOf(a, c), "prefs")
             /\ out'.op = "set_pref" =>
                   \A c \in HistChats : StoredMessages(b, c) = StoredMessages(a, c)
             /\ out'.op = "set_claimed_user_id" => ChangedChats(a, b) = {}]_vars

\* an append has just added a second message to one chat while both chats
\* hold messages, a preference is set and an identity is claimed
C40_Witness ==
    /\ out.op = "append" /\ ~out.raised
    /\ \E d \in {DataIn(state_file)} :
          /\ \E c \in HistChats : Len(StoredMessages(d, c)) = 2
          /\ \A c \in HistChats : StoredMessages(d, c) # <<>>
          /\ \E c \in HistChats : Has(Get(ChatOf(d, c), "prefs"), "codex_yolo")
          /\ ClaimedUserId(d) = IntVal(5)

====
